---- MODULE Spec2Model ----
(***************************************************************************)
(* Model of brainles_preprocessing: the atlas-centric preprocessing        *)
(* pipeline (AtlasCentricPreprocessor.run and the Modality state it        *)
(* drives), preprocessor construction, the post-hoc Transform /            *)
(* BackToNativeSpace utilities and the NiftyReg affine algebra.            *)
(***************************************************************************)
EXTENDS Integers, Sequences, FiniteSets, TLC

(***************************************************************************)
(* Bounds                                                                  *)
(***************************************************************************)
\* number of moving modalities of a run (modality 0 is the center)
NumMoving == 1

(***************************************************************************)
(* PreprocessorSteps (constants.py)                                        *)
(***************************************************************************)
INPUT == 0
COREGISTERED == 1
ATLAS_REGISTERED == 2
ATLAS_CORRECTED == 3
N4_BIAS_CORRECTED == 4
BET == 5
DEFACED == 6
PreprocessorSteps == INPUT..DEFACED

VARIABLES
    \* ---- AtlasCentricPreprocessor / Modality state ----
    args,             \* constructor arguments of the modalities and the preprocessor, run() arguments
    pc,               \* position of run()
    loop,             \* index of the modality the running stage loop is at
    modality,         \* per modality: current, steps, transformation_paths
    brain_extractor,  \* BasePreprocessor.brain_extractor
    defacer,          \* BasePreprocessor.defacer
    atlas_mask,       \* local atlas_mask of run_brain_extraction / run_defacing
    temp_folder,      \* sub-directories of temp_folder created so far
    files,            \* image and matrix files in temp_folder
    disk,             \* requested output files written so far
    calls,            \* calls made to the external engines, in order
    stage_log,        \* stage methods entered by run(), in order
    transformations_dir,  \* save_dir_transformations: per modality sub-directory, the files in it
    error,            \* exception that left the running call, if any
    warnings,         \* messages run() logged with logger.warning, in order
    logger,           \* the handlers registered with the logger, and run()'s logger_id
    \* ---- Preprocessor.__init__ ----
    ctor_args,        \* arguments of the constructor call
    preprocessor,     \* the constructed preprocessor, if any
    message,          \* the names listed in the message of the exception raised
    \* ---- Transform.apply / BackToNativeSpace.transform ----
    request,          \* arguments of the call
    listings,         \* what each listing of a transformation sub-directory returned
    registrator_calls,  \* calls made to the registrator, in order
    \* ---- NiftyRegRegistrator affine algebra ----
    matrix_files,     \* affine matrix text files on disk: path -> content
    derivation,       \* how each written matrix file was produced
    resampled,        \* matrices handed to the resampling script, in order
    ops,              \* number of calls made to the algebra so far
    applied,          \* transforms the registration backends have applied, in order
    \* ---- a single Modality object ----
    mod_args,         \* arguments of Modality.__init__ / CenterModality.__init__
    subject,          \* the constructed modality, if any
    contents          \* image files on disk: path -> voxels

runVars == <<args, pc, loop, modality, brain_extractor, defacer, atlas_mask,
             temp_folder, files, disk, calls, stage_log, transformations_dir, error,
             warnings, logger>>

ctorVars == <<ctor_args, preprocessor, message>>
tfVars == <<request, listings, registrator_calls>>
algVars == <<matrix_files, derivation, resampled, ops, applied>>

modVars == <<mod_args, subject, contents>>

vars == <<runVars, ctorVars, tfVars, algVars, modVars>>

(***************************************************************************)
(* Values                                                                  *)
(***************************************************************************)
Center == 0
Mods == 0..NumMoving
Moving == 1..NumMoving

\* a file path is <<kind, modality>>; None is the absent path
None == <<"None", -1>>
AtlasImage == <<"atlas_image", -1>>
Path(kind, m) == <<kind, m>>

RawOutputs == {"raw_bet_output_path", "raw_skull_output_path", "raw_defaced_output_path"}
NormalizedOutputs == {"normalized_bet_output_path", "normalized_skull_output_path",
                      "normalized_defaced_output_path"}
OutputKinds == RawOutputs \cup NormalizedOutputs

\* the output requests enumerated per modality (Modality.__init__ rejects the empty request)
OutputChoices == (SUBSET RawOutputs) \ {{}}

RegistratorKinds == {"ANTsRegistrator", "ElastixRegistrator"}
DefacerKinds == {"None", "QuickshearDefacer", "OtherDefacer"}
ExtractorKinds == {"None", "Supplied"}

\* dict helpers
Put(d, k, v) == [x \in (DOMAIN d) \cup {k} |-> IF x = k THEN v ELSE d[x]]
Get(d, k) == IF k \in DOMAIN d THEN d[k] ELSE None

\* the logger before any run: no file handler registered, the next handler id, and
\* no logger_id held by a run
NoHandlers == [handlers |-> {}, next_id |-> 1, logger_id |-> 0]

\* BasePreprocessor._add_log_file_handler: logger.add registers a handler under a fresh
\* id, which run() keeps as logger_id
AddLogFileHandler(l) ==
    [handlers |-> l.handlers \cup {l.next_id}, next_id |-> l.next_id + 1,
     logger_id |-> l.next_id]

\* mutant: the handler stays registered
LoggerRemove_Kept(l) == l

\* the finally clause of run(): logger.remove(logger_id)
LoggerRemove(l) == [l EXCEPT !.handlers = @ \ {l.logger_id}]

\* one call of an external engine: what was called, for which modality, by which stage
Call(op, m, input, aux) ==
    [op |-> op, mod |-> m, input |-> input, aux |-> aux, stage |-> pc]

(***************************************************************************)
(* Modality (modality.py)                                                  *)
(***************************************************************************)
\* Modality.__init__: the state of a freshly constructed modality
NewModality(m) ==
    [current |-> Path("input", m),
     steps |-> [k \in PreprocessorSteps |-> IF k = INPUT THEN Path("input", m) ELSE None],
     transformation_paths |-> << >>]

\* Modality.bet
bet(m) ==
    \/ "raw_bet_output_path" \in args.outputs[m]
    \/ "normalized_bet_output_path" \in args.outputs[m]

\* Modality.requires_deface
requires_deface(m) ==
    \/ "raw_defaced_output_path" \in args.outputs[m]
    \/ "normalized_defaced_output_path" \in args.outputs[m]

\* Modality._find_transformation_matrix: glob for the matrix file the backend wrote
FindTransformationMatrix(transform_incomplete_path, fs) ==
    IF transform_incomplete_path \in fs THEN transform_incomplete_path ELSE None

\* mutant: the matrix is recorded, the registered image is not
Register_ArtifactNotRecorded(self, registered, registered_matrix, step, fs) ==
    [self EXCEPT !.current = registered,
                 !.transformation_paths =
                     Put(@, step, FindTransformationMatrix(registered_matrix, fs))]

\* Modality.register, after the registrator returned: registered image and matrix recorded
Register(self, registered, registered_matrix, step, fs) ==
    [self EXCEPT !.current = registered,
                 !.steps[step] = registered,
                 !.transformation_paths =
                     Put(@, step, FindTransformationMatrix(registered_matrix, fs))]

\* Modality.transform: which image the registrator resamples, and with which matrices
UnitesTransforms(registrator, step) ==
    /\ registrator \in {"ANTsRegistrator", "NiftyRegRegistrator"}
    /\ step = ATLAS_REGISTERED

\* mutant: the coregistered image is resampled although the matrices are united
TransformMoving_Current(self, registrator, step) == self.current

TransformMoving(self, registrator, step) ==
    IF UnitesTransforms(registrator, step) THEN self.steps[INPUT] ELSE self.current

TransformMatrices(self, registrator, transformation_matrix_path, step) ==
    IF UnitesTransforms(registrator, step)
    THEN <<Get(self.transformation_paths, COREGISTERED), transformation_matrix_path>>
    ELSE <<transformation_matrix_path>>

\* Modality.transform, after the registrator returned
Transform(self, transformed, transformation_matrix_path, step, fs) ==
    [self EXCEPT !.current = transformed,
                 !.steps[step] = transformed,
                 !.transformation_paths =
                     Put(@, step, FindTransformationMatrix(transformation_matrix_path, fs))]

\* mutant: the masked image becomes current but is not recorded under BET
ApplyBetMask_NotRecorded(self, bet_img) ==
    [self EXCEPT !.current = bet_img]

\* Modality.apply_bet_mask, after the extractor returned (only called when self.bet)
ApplyBetMask(self, bet_img) ==
    [self EXCEPT !.current = bet_img, !.steps[BET] = bet_img]

\* Modality.apply_deface_mask: the image the deface mask is applied to
DefaceInput(self, atlas_correction) ==
    LET first == self.steps[IF atlas_correction THEN ATLAS_CORRECTED ELSE ATLAS_REGISTERED]
    IN  IF first # None THEN first ELSE self.steps[COREGISTERED]

\* mutant: the defaced image is recorded but does not become current
ApplyDefaceMask_CurrentStale(self, defaced_img) ==
    [self EXCEPT !.steps[DEFACED] = defaced_img]

\* Modality.apply_deface_mask, after the defacer returned
ApplyDefaceMask(self, defaced_img) ==
    [self EXCEPT !.current = defaced_img, !.steps[DEFACED] = defaced_img]

\* mutant: the center's BET image is recorded only when the center requested a BET output
ExtractBrainRegion_OnlyWhenRequested(self, bet_img, self_bet) ==
    IF self_bet THEN [self EXCEPT !.steps[BET] = bet_img, !.current = bet_img] ELSE self

\* CenterModality.extract_brain_region, after the extractor returned
ExtractBrainRegion(self, bet_img, self_bet) ==
    [self EXCEPT !.steps[BET] = bet_img,
                 !.current = IF self_bet THEN bet_img ELSE @]

\* CenterModality.deface: "mask", "ValueError" or "None" (defacer not implemented)
DefaceOutcome(self, dfc) ==
    IF dfc = "QuickshearDefacer"
    THEN IF self.steps[BET] = None THEN "ValueError" ELSE "mask"
    ELSE "None"

(***************************************************************************)
(* BasePreprocessor / AtlasCentricPreprocessor                             *)
(***************************************************************************)
\* BasePreprocessor.requires_defacing
requires_defacing == \E m \in Mods : requires_deface(m)

\* run_brain_extraction: brain_extraction (any bet output requested)
BrainExtractionRequested == \E m \in Mods : bet(m)

\* mutant: an unset defacer is not counted as the Quickshear default
RequiredDownstream_OnlyExplicit(dfc) ==
    requires_defacing /\ dfc = "QuickshearDefacer"

\* run_brain_extraction: required_downstream
RequiredDownstream(dfc) ==
    requires_defacing /\ (dfc = "QuickshearDefacer" \/ dfc = "None")

\* mutant: defacing is called before brain extraction
RunOrder_DefaceFirst ==
    <<"coregistration", "atlas_registration", "atlas_correction", "n4_bias_correction",
      "save_skull", "defacing", "brain_extraction", "save_transformations">>

\* the stage methods in the order run() calls them
RunOrder ==
    <<"coregistration", "atlas_registration", "atlas_correction", "n4_bias_correction",
      "save_skull", "brain_extraction", "defacing", "save_transformations">>

\* the stage run() calls after stage s has returned ("done" after the last one)
StageAfter(s) ==
    LET k == CHOOSE j \in 1..Len(RunOrder) : RunOrder[j] = s
    IN  IF k < Len(RunOrder) THEN RunOrder[k + 1] ELSE "done"

\* first loop index of a stage: stages that handle the center in their loop start at 0
FirstIndex(s) ==
    CASE s \in {"n4_bias_correction", "atlas_registration", "brain_extraction"} -> 0
      [] s = "defacing" -> -1
      [] OTHER -> 1

\* run() enters stage s
Enter(s) ==
    /\ pc' = s
    /\ loop' = FirstIndex(s)
    /\ stage_log' = IF s = "done" THEN stage_log ELSE Append(stage_log, s)
    /\ logger' = CASE pc = "constructed" -> AddLogFileHandler(logger)
                   [] s = "done" -> LoggerRemove(logger)
                   [] OTHER -> logger

\* stage s returns to run(), which calls the next stage
Return(s) == Enter(StageAfter(s))

\* an exception leaves run()
Raise(e) ==
    /\ pc' = "raised"
    /\ error' = e
    /\ logger' = LoggerRemove(logger)
    /\ UNCHANGED <<loop, stage_log>>

\* mutant: the input image is saved instead of the current one
SavedImage_Input(m, kind) ==
    [mod |-> m, kind |-> kind, src |-> modality[m].steps[INPUT],
     normalized |-> kind \in NormalizedOutputs]

\* Modality.save_current_image: the file written for one requested output
SavedImage(m, kind) ==
    [mod |-> m, kind |-> kind, src |-> modality[m].current,
     normalized |-> kind \in NormalizedOutputs]

\* the loops of run(), run_brain_extraction and run_defacing that save requested outputs
SaveOutputs(kinds) ==
    disk' = disk \cup UNION {{SavedImage(m, k) : k \in kinds \cap args.outputs[m]} : m \in Mods}

\* the input images and the atlas image the caller named although no such file exists
Missing == IF "missing" \in DOMAIN args THEN args.missing ELSE {}

\* a path names a file that exists: an input or the atlas (unless the caller named a
\* file that does not exist), or a file a step has written
IsFile(p) == p \in files \/ ((p[1] = "input" \/ p = AtlasImage) /\ p \notin Missing)

\* the currents of the modalities that requested one of the given outputs
SavedFrom(kinds) == {modality[m].current : m \in {x \in Mods : kinds \cap args.outputs[x] # {}}}

Range(seq) == {seq[k] : k \in 1..Len(seq)}

\* the files the step run() is about to execute reads
PendingInputs ==
    CASE pc = "coregistration" /\ loop \in Moving ->
             {modality[loop].current, modality[Center].current}
      [] pc = "atlas_registration" /\ loop = 0 -> {modality[Center].current, AtlasImage}
      [] pc = "atlas_registration" /\ loop \in Moving ->
             IF /\ UnitesTransforms(args.registrator, ATLAS_REGISTERED)
                /\ Get(modality[loop].transformation_paths, COREGISTERED) = None
             THEN {}
             ELSE {TransformMoving(modality[loop], args.registrator, ATLAS_REGISTERED),
                   AtlasImage}
                  \cup Range(TransformMatrices(modality[loop], args.registrator,
                                               Path("M_atlas", Center), ATLAS_REGISTERED))
      [] pc = "atlas_correction" /\ loop \in Moving ->
             IF args.atlas_correction[loop]
             THEN {modality[loop].current, modality[Center].current} ELSE {}
      [] pc = "atlas_correction" /\ loop = NumMoving + 1 ->
             IF args.atlas_correction[Center] THEN {modality[Center].current} ELSE {}
      [] pc = "n4_bias_correction" /\ loop \in Mods ->
             IF args.n4_bias_correction[loop] THEN {modality[loop].current} ELSE {}
      [] pc = "save_skull" ->
             SavedFrom({"raw_skull_output_path", "normalized_skull_output_path"})
      [] pc = "brain_extraction" /\ loop = 0 ->
             IF BrainExtractionRequested \/ RequiredDownstream(defacer)
             THEN {modality[Center].current} ELSE {}
      [] pc = "brain_extraction" /\ loop \in Moving ->
             IF bet(loop) THEN {modality[loop].current, atlas_mask} ELSE {}
      [] pc = "brain_extraction" /\ loop = NumMoving + 1 ->
             SavedFrom({"raw_bet_output_path", "normalized_bet_output_path"})
      [] pc = "defacing" /\ loop \in Mods ->
             IF requires_deface(loop) /\ atlas_mask # None
             THEN {DefaceInput(modality[loop], args.atlas_correction[loop]), atlas_mask} \ {None}
             ELSE {}
      [] pc = "defacing" /\ loop = NumMoving + 1 ->
             SavedFrom({"raw_defaced_output_path", "normalized_defaced_output_path"})
      [] OTHER -> {}

\* every file the pending step reads exists; a step that misses one raises instead
InputsPresent == \A p \in PendingInputs : IsFile(p)

\* ---- run_coregistration ----
\* mutant: the registered image of the moving modality also becomes the center's current
CoregisterMoving_TouchesCenter ==
    /\ pc = "coregistration" /\ loop \in Moving
    /\ InputsPresent
    /\ LET registered == Path("co", loop)
           matrix == Path("M_co", loop)
           fs == files \cup {registered, matrix}
       IN  /\ calls' = Append(calls, Call("register", loop, modality[loop].current,
                                          modality[Center].current))
           /\ files' = fs
           /\ modality' = [modality EXCEPT
                             ![loop] = Register(@, registered, matrix, COREGISTERED, fs),
                             ![Center].current = registered]
    /\ temp_folder' = temp_folder \cup {"coregistration"}
    /\ loop' = loop + 1
    /\ UNCHANGED <<args, warnings, pc, brain_extractor, defacer, atlas_mask, disk, stage_log, logger,
                   transformations_dir, error>>
    /\ UNCHANGED <<ctorVars, tfVars, algVars, modVars>>

CoregisterMoving ==
    /\ pc = "coregistration" /\ loop \in Moving
    /\ InputsPresent
    /\ LET registered == Path("co", loop)
           matrix == Path("M_co", loop)
           fs == files \cup {registered, matrix}
       IN  /\ calls' = Append(calls, Call("register", loop, modality[loop].current,
                                          modality[Center].current))
           /\ files' = fs
           /\ modality' = [modality EXCEPT
                             ![loop] = Register(@, registered, matrix, COREGISTERED, fs)]
    /\ temp_folder' = temp_folder \cup {"coregistration"}
    /\ loop' = loop + 1
    /\ UNCHANGED <<args, warnings, pc, brain_extractor, defacer, atlas_mask, disk, stage_log, logger,
                   transformations_dir, error>>
    /\ UNCHANGED <<ctorVars, tfVars, algVars, modVars>>

\* the center's coregistered step: the same as its input
CenterCoregistered(self) ==
    [self EXCEPT !.steps[COREGISTERED] = self.steps[INPUT]]

CoregisterCenter ==
    /\ pc = "coregistration" /\ loop = NumMoving + 1
    /\ modality' = [modality EXCEPT ![Center] = CenterCoregistered(@)]
    /\ temp_folder' = temp_folder \cup {"coregistration"}
    /\ files' = files \cup {Path("native", Center)}
    /\ Return("coregistration")
    /\ UNCHANGED <<args, warnings, brain_extractor, defacer, atlas_mask, disk, calls,
                   transformations_dir, error>>
    /\ UNCHANGED <<ctorVars, tfVars, algVars, modVars>>

\* ---- run_atlas_registration ----
AtlasRegisterCenter ==
    /\ pc = "atlas_registration" /\ loop = 0
    /\ InputsPresent
    /\ LET registered == Path("atlas", Center)
           matrix == Path("M_atlas", Center)
           fs == files \cup {registered, matrix}
       IN  /\ calls' = Append(calls, Call("register", Center, modality[Center].current,
                                          AtlasImage))
           /\ files' = fs
           /\ modality' = [modality EXCEPT
                             ![Center] = Register(@, registered, matrix, ATLAS_REGISTERED, fs)]
    /\ temp_folder' = temp_folder \cup {"atlas-space"}
    /\ loop' = 1
    /\ UNCHANGED <<args, warnings, pc, brain_extractor, defacer, atlas_mask, disk, stage_log, logger,
                   transformations_dir, error>>
    /\ UNCHANGED <<ctorVars, tfVars, algVars, modVars>>

AtlasTransformMoving ==
    /\ pc = "atlas_registration" /\ loop \in Moving
    /\ InputsPresent
    /\ LET transformed == Path("atlas", loop)
           transformation_matrix == Path("M_atlas", Center)
           self == modality[loop]
       IN  IF /\ UnitesTransforms(args.registrator, ATLAS_REGISTERED)
              /\ Get(self.transformation_paths, COREGISTERED) = None
           THEN /\ Raise("AssertionError")
                /\ UNCHANGED <<modality, files, calls>>
           ELSE /\ calls' = Append(calls,
                       Call("transform", loop,
                            TransformMoving(self, args.registrator, ATLAS_REGISTERED),
                            TransformMatrices(self, args.registrator, transformation_matrix,
                                              ATLAS_REGISTERED)))
                /\ files' = files \cup {transformed}
                /\ modality' = [modality EXCEPT
                       ![loop] = Transform(@, transformed, transformation_matrix,
                                           ATLAS_REGISTERED, files)]
                /\ IF loop = NumMoving
                   THEN Return("atlas_registration")
                   ELSE loop' = loop + 1 /\ UNCHANGED <<pc, stage_log, logger>>
                /\ UNCHANGED error
    /\ UNCHANGED <<args, warnings, brain_extractor, defacer, atlas_mask, temp_folder, disk,
                   transformations_dir>>
    /\ UNCHANGED <<ctorVars, tfVars, algVars, modVars>>

\* ---- run_atlas_correction ----
AtlasCorrectMoving ==
    /\ pc = "atlas_correction" /\ loop \in Moving
    /\ InputsPresent
    /\ IF args.atlas_correction[loop]
       THEN LET registered == Path("atlas_corrected", loop)
                matrix == Path("M_atlas_corrected", loop)
                fs == files \cup {registered, matrix}
            IN  /\ calls' = Append(calls, Call("register", loop, modality[loop].current,
                                               modality[Center].current))
                /\ files' = fs
                /\ modality' = [modality EXCEPT
                       ![loop] = Register(@, registered, matrix, ATLAS_CORRECTED, fs)]
       ELSE UNCHANGED <<calls, files, modality>>
    /\ temp_folder' = temp_folder \cup {"atlas-correction"}
    /\ loop' = loop + 1
    /\ UNCHANGED <<args, warnings, pc, brain_extractor, defacer, atlas_mask, disk, stage_log, logger,
                   transformations_dir, error>>
    /\ UNCHANGED <<ctorVars, tfVars, algVars, modVars>>

\* mutant: the copy becomes the center's current image
CenterAtlasCorrected_BecomesCurrent(self, center_atlas_corrected_path) ==
    [self EXCEPT !.steps[ATLAS_CORRECTED] = center_atlas_corrected_path,
                 !.current = center_atlas_corrected_path]

\* the center's atlas-corrected artifact: a copy of its current image
CenterAtlasCorrected(self, center_atlas_corrected_path) ==
    [self EXCEPT !.steps[ATLAS_CORRECTED] = center_atlas_corrected_path]

AtlasCorrectCenter ==
    /\ pc = "atlas_correction" /\ loop = NumMoving + 1
    /\ InputsPresent
    /\ IF args.atlas_correction[Center]
       THEN /\ files' = files \cup {Path("atlas_corrected", Center)}
            /\ modality' = [modality EXCEPT
                   ![Center] = CenterAtlasCorrected(@, Path("atlas_corrected", Center))]
       ELSE UNCHANGED <<files, modality>>
    /\ temp_folder' = temp_folder \cup {"atlas-correction"}
    /\ Return("atlas_correction")
    /\ UNCHANGED <<args, warnings, brain_extractor, defacer, atlas_mask, disk, calls,
                   transformations_dir, error>>
    /\ UNCHANGED <<ctorVars, tfVars, algVars, modVars>>

\* ---- run_n4_bias_correction ----
\* mutant: the corrected image is recorded but current is left behind
N4BiasCorrected_CurrentStale(self, output_path) ==
    [self EXCEPT !.steps[N4_BIAS_CORRECTED] = output_path]

\* the corrected image is recorded and becomes current
N4BiasCorrected(self, output_path) ==
    [self EXCEPT !.steps[N4_BIAS_CORRECTED] = output_path, !.current = output_path]

N4BiasCorrect ==
    /\ pc = "n4_bias_correction" /\ loop \in Mods
    /\ InputsPresent
    /\ IF args.n4_bias_correction[loop]
       THEN LET output_path == Path("N4_bias_corrected", loop)
            IN  /\ calls' = Append(calls, Call("correct", loop, modality[loop].current, None))
                /\ files' = files \cup {output_path}
                /\ modality' = [modality EXCEPT ![loop] = N4BiasCorrected(@, output_path)]
       ELSE UNCHANGED <<calls, files, modality>>
    /\ temp_folder' = temp_folder \cup {"n4-bias-correction"}
    /\ IF loop = NumMoving
       THEN Return("n4_bias_correction")
       ELSE loop' = loop + 1 /\ UNCHANGED <<pc, stage_log, logger>>
    /\ UNCHANGED <<args, warnings, brain_extractor, defacer, atlas_mask, disk, transformations_dir, error>>
    /\ UNCHANGED <<ctorVars, tfVars, algVars, modVars>>

\* ---- run(): saving the images that are not skull-stripped ----
SaveSkull ==
    /\ pc = "save_skull"
    /\ InputsPresent
    /\ SaveOutputs({"raw_skull_output_path", "normalized_skull_output_path"})
    /\ Return("save_skull")
    /\ UNCHANGED <<args, warnings, modality, brain_extractor, defacer, atlas_mask, temp_folder, files,
                   calls, transformations_dir, error>>
    /\ UNCHANGED <<ctorVars, tfVars, algVars, modVars>>

\* ---- run_brain_extraction ----
\* mutant: the downstream need of the defacer is ignored
BrainExtractionRuns_RequestedOnly(dfc) == BrainExtractionRequested

\* the guard of run_brain_extraction: the stage does its work
BrainExtractionRuns(dfc) == BrainExtractionRequested \/ RequiredDownstream(dfc)

\* the extractor used: the default HDBetExtractor when none was given
DefaultBrainExtractor(be) == IF be = "None" THEN "HDBetExtractor" ELSE be

\* logger.warning of a stage that falls back to the default of a collaborator
WarnDefault(log, given, default) ==
    IF given = "None" THEN Append(log, default) ELSE log

BrainExtractionSkip ==
    /\ pc = "brain_extraction" /\ loop = 0
    /\ ~BrainExtractionRuns(defacer)
    /\ Return("brain_extraction")
    /\ UNCHANGED <<args, warnings, modality, brain_extractor, defacer, atlas_mask, temp_folder, files,
                   disk, calls, transformations_dir, error>>
    /\ UNCHANGED <<ctorVars, tfVars, algVars, modVars>>

ExtractCenter ==
    /\ pc = "brain_extraction" /\ loop = 0
    /\ InputsPresent
    /\ BrainExtractionRuns(defacer)
    /\ temp_folder' = temp_folder \cup {"brain-extraction"}
    /\ brain_extractor' = DefaultBrainExtractor(brain_extractor)
    /\ warnings' = WarnDefault(warnings, brain_extractor, "HDBetExtractor")
    /\ LET bet_img == Path("bet", Center)
           mask_path == Path("brain_mask", Center)
       IN  /\ calls' = Append(calls, Call("extract", Center, modality[Center].current, None))
           /\ files' = files \cup {bet_img, mask_path}
           /\ modality' = [modality EXCEPT
                             ![Center] = ExtractBrainRegion(@, bet_img, bet(Center))]
           /\ atlas_mask' = mask_path
    /\ loop' = 1
    /\ UNCHANGED <<args, pc, defacer, disk, stage_log, logger, transformations_dir, error>>
    /\ UNCHANGED <<ctorVars, tfVars, algVars, modVars>>

ApplyBetMaskMoving ==
    /\ pc = "brain_extraction" /\ loop \in Moving
    /\ InputsPresent
    /\ IF bet(loop)
       THEN LET bet_img == Path("bet", loop)
            IN  /\ calls' = Append(calls, Call("apply_bet_mask", loop, modality[loop].current,
                                               atlas_mask))
                /\ files' = files \cup {bet_img}
                /\ modality' = [modality EXCEPT ![loop] = ApplyBetMask(@, bet_img)]
       ELSE UNCHANGED <<calls, files, modality>>
    /\ loop' = loop + 1
    /\ UNCHANGED <<args, warnings, pc, brain_extractor, defacer, atlas_mask, temp_folder, disk,
                   stage_log, logger, transformations_dir, error>>
    /\ UNCHANGED <<ctorVars, tfVars, algVars, modVars>>

SaveBet ==
    /\ pc = "brain_extraction" /\ loop = NumMoving + 1
    /\ InputsPresent
    /\ SaveOutputs({"raw_bet_output_path", "normalized_bet_output_path"})
    /\ atlas_mask' = None
    /\ Return("brain_extraction")
    /\ UNCHANGED <<args, warnings, modality, brain_extractor, defacer, temp_folder, files, calls,
                   transformations_dir, error>>
    /\ UNCHANGED <<ctorVars, tfVars, algVars, modVars>>

\* ---- run_defacing ----
\* the defacer used: the default QuickshearDefacer when none was given
DefaultDefacer(dfc) == IF dfc = "None" THEN "QuickshearDefacer" ELSE dfc

DefacingSkip ==
    /\ pc = "defacing" /\ loop = -1
    /\ ~requires_defacing
    /\ Return("defacing")
    /\ UNCHANGED <<args, warnings, modality, brain_extractor, defacer, atlas_mask, temp_folder, files,
                   disk, calls, transformations_dir, error>>
    /\ UNCHANGED <<ctorVars, tfVars, algVars, modVars>>

\* QuickshearDefacer.force_atlas_registration: True unless the caller constructed the
\* defacer with False (the default defacer of run_defacing is QuickshearDefacer())
ForceAtlasRegistration ==
    IF "force_atlas_registration" \in DOMAIN args /\ args.defacer = "QuickshearDefacer"
    THEN args.force_atlas_registration
    ELSE TRUE

\* CenterModality.deface with a Quickshear defacer: the engine calls it makes, in order.
\* With force_atlas_registration and a registrator the BET image is registered to the
\* defacer's atlas, the mask is computed there and transformed back; otherwise the mask
\* is computed on the BET image
DefaceCalls(self, force_atlas_registration, registrator) ==
    IF force_atlas_registration /\ registrator # "None"
    THEN <<Call("register", Center, self.steps[BET], AtlasImage),
           Call("deface", Center, Path("atlas_bet", Center), None),
           Call("inverse_transform", Center, Path("deface_mask_atlas", Center),
                Path("M_atlas_bet", Center))>>
    ELSE <<Call("deface", Center, self.steps[BET], None)>>

\* run_defacing: the registrator argument of its call of center_modality.deface (the
\* call passes defacer and defaced_dir_path only)
DefaceRegistrator == "None"

DefaceCenter ==
    /\ pc = "defacing" /\ loop = -1
    /\ requires_defacing
    /\ temp_folder' = temp_folder \cup {"deface"}
    /\ defacer' = DefaultDefacer(defacer)
    /\ LET outcome == DefaceOutcome(modality[Center], defacer')
           mask_path == Path("deface_mask", Center)
           log == WarnDefault(warnings, defacer, "QuickshearDefacer")
       IN  CASE outcome = "ValueError" ->
                  /\ Raise("ValueError")
                  /\ warnings' = log
                  /\ UNCHANGED <<calls, files, atlas_mask>>
             [] outcome = "mask" ->
                  /\ calls' = calls \o DefaceCalls(modality[Center], ForceAtlasRegistration,
                                                    DefaceRegistrator)
                  /\ files' = files \cup {mask_path}
                  /\ atlas_mask' = mask_path
                  /\ warnings' = log
                  /\ loop' = 0
                  /\ UNCHANGED <<pc, stage_log, logger, error>>
             [] OTHER ->
                  /\ atlas_mask' = None
                  /\ warnings' = Append(log, "Defacing method not implemented yet")
                  /\ loop' = 0
                  /\ UNCHANGED <<calls, files, pc, stage_log, logger, error>>
    /\ UNCHANGED <<args, modality, brain_extractor, disk, transformations_dir>>
    /\ UNCHANGED <<ctorVars, tfVars, algVars, modVars>>

ApplyDefaceMaskStep ==
    /\ pc = "defacing" /\ loop \in Mods
    /\ InputsPresent
    /\ IF requires_deface(loop)
       THEN LET defaced_img == Path("defaced", loop)
                input_img == DefaceInput(modality[loop], args.atlas_correction[loop])
            IN  CASE atlas_mask = None ->
                       /\ Raise("TypeError")
                       /\ UNCHANGED <<calls, files, modality>>
                  [] atlas_mask # None /\ input_img = None ->
                       /\ Raise("ValueError")
                       /\ UNCHANGED <<calls, files, modality>>
                  [] OTHER ->
                       /\ calls' = Append(calls, Call("apply_deface_mask", loop, input_img,
                                                      atlas_mask))
                       /\ files' = files \cup {defaced_img}
                       /\ modality' = [modality EXCEPT
                                         ![loop] = ApplyDefaceMask(@, defaced_img)]
                       /\ loop' = loop + 1
                       /\ UNCHANGED <<pc, stage_log, logger, error>>
       ELSE /\ loop' = loop + 1
            /\ UNCHANGED <<calls, files, modality, pc, stage_log, logger, error>>
    /\ UNCHANGED <<args, warnings, brain_extractor, defacer, atlas_mask, temp_folder, disk,
                   transformations_dir>>
    /\ UNCHANGED <<ctorVars, tfVars, algVars, modVars>>

SaveDefaced ==
    /\ pc = "defacing" /\ loop = NumMoving + 1
    /\ InputsPresent
    /\ SaveOutputs({"raw_defaced_output_path", "normalized_defaced_output_path"})
    /\ atlas_mask' = None
    /\ Return("defacing")
    /\ UNCHANGED <<args, warnings, modality, brain_extractor, defacer, temp_folder, files, calls,
                   transformations_dir, error>>
    /\ UNCHANGED <<ctorVars, tfVars, algVars, modVars>>

\* ---- run(): saving the transformation matrices ----
\* path.name of a matrix file as a string of code points: the matrix kinds in
\* alphabetical order, then the modality
PathName(path) ==
    <<CASE path[1] = "M_atlas" -> 1
        [] path[1] = "M_atlas_corrected" -> 2
        [] OTHER -> 3,
      path[2]>>

\* mutant: the file keeps the name of the matrix, without the stage value
TransformationFileName_NoPrefix(step, path) == PathName(path)

\* f"{step.value}_{path.name}"
TransformationFileName(step, path) == <<step>> \o PathName(path)

\* the files written into the sub-directory of one modality
SavedTransformations(self) ==
    {TransformationFileName(step, self.transformation_paths[step]) :
        step \in {k \in DOMAIN self.transformation_paths : self.transformation_paths[k] # None}}

SaveTransformations ==
    /\ pc = "save_transformations"
    /\ transformations_dir' =
           IF args.save_dir_transformations
           THEN [m \in Mods |-> SavedTransformations(modality[m])]
           ELSE transformations_dir
    /\ Return("save_transformations")
    /\ UNCHANGED <<args, warnings, modality, brain_extractor, defacer, atlas_mask, temp_folder, files,
                   disk, calls, error>>
    /\ UNCHANGED <<ctorVars, tfVars, algVars, modVars>>

\* ---- run() is called on the constructed preprocessor ----
Run ==
    /\ pc = "constructed"
    /\ Enter(RunOrder[1])
    /\ UNCHANGED <<args, warnings, modality, brain_extractor, defacer, atlas_mask, temp_folder, files,
                   disk, calls, transformations_dir, error>>
    /\ UNCHANGED <<ctorVars, tfVars, algVars, modVars>>

(***************************************************************************)
(* The state of the parts of the program a specification does not run      *)
(***************************************************************************)
\* the value of a variable that holds no call and no object
Unset == [op |-> "None"]

RunIdle ==
    /\ args = Unset /\ pc = "idle" /\ loop = 0 /\ modality = << >>
    /\ brain_extractor = "None" /\ defacer = "None" /\ atlas_mask = None
    /\ temp_folder = {} /\ files = {} /\ disk = {} /\ calls = << >> /\ stage_log = << >> /\ logger = NoHandlers
    /\ transformations_dir = << >> /\ warnings = << >>
CtorIdle == ctor_args = Unset /\ preprocessor = Unset /\ message = << >>
TfIdle == request = Unset /\ listings = << >> /\ registrator_calls = << >>
AlgIdle ==
    /\ matrix_files = << >> /\ derivation = << >> /\ resampled = << >> /\ ops = 0
    /\ applied = << >>
ModIdle == mod_args = Unset /\ subject = Unset /\ contents = << >>

(***************************************************************************)
(* The pipeline specification                                              *)
(***************************************************************************)
Args ==
    [outputs : [Mods -> OutputChoices],
     atlas_correction : [Mods -> BOOLEAN],
     n4_bias_correction : [Mods -> BOOLEAN],
     registrator : RegistratorKinds,
     brain_extractor : ExtractorKinds,
     defacer : DefacerKinds,
     save_dir_transformations : BOOLEAN]

\* the state after the modalities and the preprocessor have been constructed
Init ==
    /\ args \in Args
    /\ pc = "constructed"
    /\ loop = 0
    /\ modality = [m \in Mods |-> NewModality(m)]
    /\ brain_extractor = args.brain_extractor
    /\ defacer = args.defacer
    /\ atlas_mask = None
    /\ temp_folder = {}
    /\ files = {}
    /\ disk = {}
    /\ calls = << >>
    /\ stage_log = << >> /\ logger = NoHandlers
    /\ transformations_dir = << >>
    /\ error = "None"
    /\ warnings = << >>
    /\ CtorIdle /\ TfIdle /\ AlgIdle /\ ModIdle

Next ==
    \/ Run
    \/ CoregisterMoving
    \/ CoregisterCenter
    \/ AtlasRegisterCenter
    \/ AtlasTransformMoving
    \/ AtlasCorrectMoving
    \/ AtlasCorrectCenter
    \/ N4BiasCorrect
    \/ SaveSkull
    \/ BrainExtractionSkip
    \/ ExtractCenter
    \/ ApplyBetMaskMoving
    \/ SaveBet
    \/ DefacingSkip
    \/ DefaceCenter
    \/ ApplyDefaceMaskStep
    \/ SaveDefaced
    \/ SaveTransformations

Spec == Init /\ [][Next]_vars

(***************************************************************************)
(* Preprocessor.__init__ (preprocessor.py)                                 *)
(***************************************************************************)
\* bound: number of moving modalities handed to the constructor
MaxModalities == 3

ModalityNames == {"t1", "t1c", "flair"}
RegistratorArgs == {"None", "ANTsRegistrator", "NiftyRegRegistrator"}
N4Args == {"None", "SitkN4BiasCorrector"}

\* BasePreprocessor.all_modalities, by name
all_modalities(a) == <<a.center_modality>> \o a.moving_modalities

\* the keys of Counter(names) in the order a Counter keeps them: first occurrence
RECURSIVE CounterKeys(_)
CounterKeys(names) ==
    IF names = << >> THEN << >>
    ELSE LET front == CounterKeys(SubSeq(names, 1, Len(names) - 1))
             last == names[Len(names)]
         IN  IF \E k \in 1..Len(front) : front[k] = last THEN front ELSE Append(front, last)

\* Counter(names)[n]
name_counts(names, n) == Cardinality({i \in 1..Len(names) : names[i] = n})

\* mutant: only the first name that occurs more than once is reported
duplicates_FirstOnly(names) ==
    LET CountAbove(n) == name_counts(names, n) > 1
        all == SelectSeq(CounterKeys(names), CountAbove)
    IN  IF all = << >> THEN << >> ELSE <<all[1]>>

\* _check_for_name_conflicts: duplicates
duplicates(names) ==
    LET CountAbove(n) == name_counts(names, n) > 1
    IN  SelectSeq(CounterKeys(names), CountAbove)

\* the preprocessor __init__ leaves behind
NewPreprocessor(a) ==
    [center_modality |-> a.center_modality,
     moving_modalities |-> a.moving_modalities,
     n4_bias_corrector |-> IF a.n4_bias_corrector = "None" THEN "SitkN4BiasCorrector"
                           ELSE a.n4_bias_corrector,
     registrator |-> IF a.registrator = "None" THEN "ANTsRegistrator" ELSE a.registrator,
     brain_extractor |-> a.brain_extractor,
     defacer |-> a.defacer,
     warnings |-> WarnDefault(<< >>, a.registrator, "ANTsRegistrator")]

\* Preprocessor.__init__
Construct ==
    /\ preprocessor = Unset /\ error = "None"
    /\ LET dup == duplicates(all_modalities(ctor_args))
       IN  IF dup # << >>
           THEN /\ error' = "ValueError"
                /\ message' = dup
                /\ UNCHANGED preprocessor
           ELSE /\ preprocessor' = NewPreprocessor(ctor_args)
                /\ UNCHANGED <<error, message>>
    /\ UNCHANGED <<args, warnings, pc, loop, modality, brain_extractor, defacer, atlas_mask,
                   temp_folder, files, disk, calls, stage_log, logger, transformations_dir>>
    /\ UNCHANGED <<ctor_args, tfVars, algVars, modVars>>

CtorArgs ==
    [center_modality : ModalityNames,
     moving_modalities : UNION {[1..n -> ModalityNames] : n \in 0..MaxModalities},
     registrator : RegistratorArgs,
     n4_bias_corrector : N4Args,
     brain_extractor : {"None"},
     defacer : {"None"}]

InitConstruct ==
    /\ ctor_args \in CtorArgs
    /\ preprocessor = Unset /\ message = << >>
    /\ error = "None"
    /\ RunIdle /\ TfIdle /\ AlgIdle /\ ModIdle

NextConstruct == Construct

SpecConstruct == InitConstruct /\ [][NextConstruct]_vars

\* the constructor has returned or raised
Constructed == preprocessor # Unset \/ error # "None"
NamesDistinct(names) == \A i, j \in 1..Len(names) : i # j => names[i] # names[j]

\* C1: construction succeeds exactly when the names of the center and the moving
\* modalities are pairwise distinct; otherwise it raises ValueError, constructs nothing,
\* and the message lists every name that occurs more than once
C1_NameConflicts ==
    Constructed =>
        LET names == all_modalities(ctor_args)
        IN  /\ NamesDistinct(names) <=> preprocessor # Unset
            /\ ~NamesDistinct(names) <=> error = "ValueError"
            /\ ~(preprocessor # Unset /\ error # "None")
            /\ \A n \in ModalityNames :
                   name_counts(names, n) > 1 => \E k \in 1..Len(message) : message[k] = n

\* a construction that was refused with two names occurring twice each
C1_Witness ==
    /\ error = "ValueError"
    /\ Cardinality({n \in ModalityNames :
                       name_counts(all_modalities(ctor_args), n) > 1}) = 2

(***************************************************************************)
(* Claims about the pipeline                                               *)
(***************************************************************************)
Steps(m) == modality[m].steps
Called(op, m) == \E k \in 1..Len(calls) : calls[k].op = op /\ calls[k].mod = m
CallIndex(op, m) == CHOOSE k \in 1..Len(calls) : calls[k].op = op /\ calls[k].mod = m
Entered(s) == \E k \in 1..Len(stage_log) : stage_log[k] = s

Highest(m, S) == CHOOSE k \in S : Steps(m)[k] # None /\ \A j \in S : Steps(m)[j] # None => j <= k

\* C3 as stated: in every state of a run, current is the artifact recorded for the highest
\* stage reached, for every modality
C3_CurrentIsHighestStage_AllModalities ==
    \A m \in Mods : modality[m].current = Steps(m)[Highest(m, PreprocessorSteps)]

\* the stages whose artifact the center's current follows: not ATLAS_CORRECTED (a copy of
\* current), and BET only when the center requested a BET output
CenterStages == PreprocessorSteps \ ({ATLAS_CORRECTED} \cup (IF bet(Center) THEN {} ELSE {BET}))

\* C3 amended: in every state of a run, each moving modality's current is the artifact of
\* its highest stage reached; the center's current is the artifact of its highest stage
\* reached other than ATLAS_CORRECTED and, when it requested no BET output, other than BET
C3_CurrentIsHighestStage ==
    /\ \A m \in Moving : modality[m].current = Steps(m)[Highest(m, PreprocessorSteps)]
    /\ modality[Center].current = Steps(Center)[Highest(Center, CenterStages)]

\* a finished run in which the center was atlas-corrected, bias-corrected and brain-extracted
\* without having requested a BET output, and a moving modality went through every stage
C3_Witness ==
    /\ pc = "done"
    /\ Steps(Center)[ATLAS_CORRECTED] # None /\ Steps(Center)[N4_BIAS_CORRECTED] # None
    /\ Steps(Center)[BET] # None /\ ~bet(Center)
    /\ \E m \in Moving : \A k \in PreprocessorSteps : Steps(m)[k] # None

\* the configuration of C4: defaced output on the center, no extractor, no defacer supplied
C4_Config ==
    /\ requires_deface(Center)
    /\ args.brain_extractor = "None"
    /\ args.defacer = "None"

\* C4: with a defaced output requested on the center and neither extractor nor defacer
\* supplied, brain extraction has run when defacing starts: the center's BET artifact
\* exists whenever the stage that writes DEFACED is running and whenever DEFACED is
\* recorded, the extractor was called before the deface mask was applied, and a run that
\* finishes has defaced the center
C4_BetBeforeDeface ==
    C4_Config =>
        /\ pc = "defacing" => (Steps(Center)[BET] # None /\ Called("extract", Center))
        /\ Steps(Center)[DEFACED] # None =>
               /\ Steps(Center)[BET] # None
               /\ CallIndex("extract", Center) < CallIndex("apply_deface_mask", Center)
        /\ pc = "done" => Steps(Center)[DEFACED] # None

\* the center was defaced in such a run although no modality requested a BET output
C4_Witness ==
    /\ C4_Config
    /\ \A m \in Mods : ~bet(m)
    /\ Steps(Center)[DEFACED] # None
    /\ brain_extractor = "HDBetExtractor"

\* C5: the condition under which the claim says brain extraction runs
C5_BetNeeded ==
    \/ \E m \in Mods : bet(m)
    \/ /\ \E m \in Mods : requires_deface(m)
       /\ args.defacer \in {"QuickshearDefacer", "None"}

\* run_brain_extraction has taken its decision / run_defacing has taken its decision
C5_BetDecided == (pc = "brain_extraction" /\ loop > 0) \/ Entered("defacing")
C5_DefaceDecided == (pc = "defacing" /\ loop >= 0) \/ Entered("save_transformations")

\* the traces of the two stages in a state
C5_Traces ==
    /\ ("brain-extraction" \in temp_folder) <=> Called("extract", Center)
    /\ "brain-extraction" \in temp_folder => C5_BetNeeded
    /\ C5_BetDecided => (C5_BetNeeded => "brain-extraction" \in temp_folder)
    /\ ~C5_BetNeeded =>
           /\ brain_extractor = args.brain_extractor
           /\ \A m \in Mods : Steps(m)[BET] = None /\ ~Called("apply_bet_mask", m)
    /\ "deface" \in temp_folder => requires_defacing
    /\ C5_DefaceDecided => (requires_defacing => "deface" \in temp_folder)
    /\ ~requires_defacing =>
           /\ defacer = args.defacer
           /\ \A m \in Mods : Steps(m)[DEFACED] = None /\ ~Called("apply_deface_mask", m)

\* a step of a stage that is not needed changes nothing but the position of run()
C5_SkippedStageIsNoOp ==
    (\/ pc = "brain_extraction" /\ ~C5_BetNeeded
     \/ pc = "defacing" /\ ~requires_defacing)
    => UNCHANGED <<modality, brain_extractor, defacer, atlas_mask, temp_folder, files,
                   disk, calls, transformations_dir, error>>

\* C5: the brain-extraction stage creates its working directory and calls the extractor
\* exactly when a BET output is requested, or a defaced output is requested and the
\* defacer is Quickshear or unset; otherwise it is a no-op: no directory, no extractor
\* call or default, no BET artifact, no change of any modality's current or steps. The
\* defacing stage runs exactly when a defaced output is requested, and is a no-op
\* otherwise.
C5_StagesRunIffNeeded ==
    []C5_Traces /\ [][C5_SkippedStageIsNoOp]_vars

\* a finished run in which brain extraction ran only because the default defacer needs it
C5_Witness ==
    /\ pc = "done"
    /\ \A m \in Mods : ~bet(m)
    /\ args.defacer = "None"
    /\ "brain-extraction" \in temp_folder /\ "deface" \in temp_folder

\* the order of the stages as C6 states it
C6_StageOrder ==
    <<"coregistration", "atlas_registration", "atlas_correction", "n4_bias_correction",
      "save_skull", "brain_extraction", "defacing", "save_transformations">>
C6_StageIndex(s) == CHOOSE k \in 1..Len(C6_StageOrder) : C6_StageOrder[k] = s

\* C6: run() enters its stages in the order coregistration, atlas registration, atlas
\* correction, N4 bias correction, saving of the skull outputs, brain extraction, defacing,
\* saving of the transformation matrices, whatever the configuration: the stages entered
\* so far are always a prefix of that order (so no stage is entered twice), a finished run
\* has entered all of them, the engines are called in stage order, and no engine is called
\* twice for the same modality within a stage
C6_FixedStageOrder ==
    /\ Len(stage_log) <= Len(C6_StageOrder)
    /\ stage_log = SubSeq(C6_StageOrder, 1, Len(stage_log))
    /\ pc = "done" => stage_log = C6_StageOrder
    /\ pc \notin {"constructed", "done", "raised"} => pc = stage_log[Len(stage_log)]
    /\ \A i, j \in 1..Len(calls) :
           i < j => /\ C6_StageIndex(calls[i].stage) <= C6_StageIndex(calls[j].stage)
                    /\ ~(/\ calls[i].op = calls[j].op
                         /\ calls[i].mod = calls[j].mod
                         /\ calls[i].stage = calls[j].stage)

\* a finished run in which every stage did its work
C6_Witness ==
    /\ pc = "done"
    /\ \A op \in {"register", "transform", "correct", "extract", "apply_bet_mask", "deface",
                  "apply_deface_mask"} : \E m \in Mods : Called(op, m)
    /\ transformations_dir # << >>
    /\ \A m \in Mods : args.atlas_correction[m]

(***************************************************************************)
(* Transform.apply (transform.py), BackToNativeSpace.transform             *)
(* (back_to_native.py)                                                     *)
(***************************************************************************)
\* bounds: files in a transformation sub-directory, length of a file name
MaxTransforms == 3
MaxNameLen == 2

\* a file name is a string: a sequence of code points
NameAlphabet == {1, 2}
FileNames == UNION {[1..n -> NameAlphabet] : n \in 1..MaxNameLen}
Directories == {d \in SUBSET FileNames : Cardinality(d) <= MaxTransforms}

\* the modality names a call may ask for; only TargetWithDir may have a sub-directory
TargetWithDir == 0
TargetNames == {0, 1}

\* a str or Path argument: its type and its text
StrOf(text) == [type |-> "str", text |-> text]
PathOf(text) == [type |-> "Path", text |-> text]
\* str(x)
Str(x) == [type |-> "str", text |-> x.text]

\* order of two paths of one directory: the order of their names as strings
RECURSIVE LexLess(_, _)
LexLess(a, b) ==
    IF a = << >> THEN b # << >>
    ELSE IF b = << >> THEN FALSE
    ELSE IF a[1] # b[1] THEN a[1] < b[1]
    ELSE LexLess(Tail(a), Tail(b))

\* insertion of one element into an ascending list
RECURSIVE Insert(_, _)
Insert(x, sorted) ==
    IF sorted = << >> THEN <<x>>
    ELSE IF LexLess(x, sorted[1]) THEN <<x>> \o sorted
    ELSE <<sorted[1]>> \o Insert(x, Tail(sorted))

\* mutant: the listing is used in the order the file system returned it
Sort_AsListed(transforms) == transforms

\* transforms.sort()
RECURSIVE Sort(_)
Sort(transforms) ==
    IF transforms = << >> THEN << >>
    ELSE Insert(transforms[1], Sort(Tail(transforms)))

\* transforms[::-1]
Reversed(transforms) ==
    [i \in 1..Len(transforms) |-> transforms[Len(transforms) + 1 - i]]

\* the orders in which iterdir() may return the files of a directory
IterDir(d) ==
    {l \in [1..Cardinality(d) -> d] : \A i, j \in 1..Cardinality(d) : i # j => l[i] # l[j]}

\* mutant: the existence of the sub-directory is not checked
Exists_NotChecked(dir, target_modality_name) == TRUE

\* modality_transformations_dir.exists()
Exists(dir, target_modality_name) == target_modality_name \in DOMAIN dir

\* the keyword arguments handed to the registrator
Kwargs(r, transforms) ==
    LET kwargs == [fixed_image_path |-> r.target_modality_img,
                   moving_image_path |-> r.moving_image,
                   transformed_image_path |-> r.output_img_path,
                   matrix_path |-> transforms,
                   log_file_path |-> Str(r.log_file_path)]
    IN  IF r.interpolator # "None"
        THEN kwargs @@ [interpolator |-> r.interpolator]
        ELSE kwargs

\* Transform.apply from the listing on: the call made to the registrator
ApplyCall(r, listing, inverse) ==
    LET sorted == Sort(listing)
        transforms == IF inverse THEN Reversed(sorted) ELSE sorted
    IN  [method |-> IF inverse THEN "inverse_transform" ELSE "transform",
         kwargs |-> Kwargs(r, transforms)]

\* BackToNativeSpace.transform from the listing on: the call made to the registrator
BackToNativeCall(r, listing) ==
    [method |-> "inverse_transform",
     kwargs |-> Kwargs(r, Reversed(Sort(listing)))]

\* the arguments both entry points take
Requests(via) ==
    [via : {via},
     target_modality_name : TargetNames,
     target_modality_img : {StrOf("target.nii.gz")},
     moving_image : {StrOf("moving.nii.gz")},
     output_img_path : {StrOf("output.nii.gz")},
     log_file_path : {StrOf("transform.log"), PathOf("transform.log")},
     interpolator : {"None", "nearestNeighbor"}]

\* what both entry points do with the sub-directory of the target modality
Serve(r, inverse) ==
    /\ request' = r
    /\ IF ~Exists(transformations_dir, r.target_modality_name)
       THEN /\ error' = "AssertionError"
            /\ UNCHANGED <<listings, registrator_calls>>
       ELSE IF r.target_modality_name \notin DOMAIN transformations_dir
       THEN \* iterdir() of a directory that does not exist
            /\ error' = "FileNotFoundError"
            /\ listings' = Append(listings, << >>)
            /\ UNCHANGED registrator_calls
       ELSE \E listing \in IterDir(transformations_dir[r.target_modality_name]) :
                /\ listings' = Append(listings, listing)
                /\ registrator_calls' =
                       Append(registrator_calls,
                              IF r.via = "Transform.apply"
                              THEN ApplyCall(r, listing, inverse)
                              ELSE BackToNativeCall(r, listing))
                /\ UNCHANGED error
    /\ UNCHANGED <<args, warnings, pc, loop, modality, brain_extractor, defacer, atlas_mask,
                   temp_folder, files, disk, calls, stage_log, logger, transformations_dir>>
    /\ UNCHANGED <<ctorVars, algVars, modVars>>

\* Transform.apply
TransformApply ==
    /\ request = Unset
    /\ \E r \in Requests("Transform.apply"), inverse \in BOOLEAN :
           Serve(r @@ [inverse |-> inverse], inverse)

\* BackToNativeSpace.transform
BackToNativeTransform ==
    /\ request = Unset
    /\ \E r \in Requests("BackToNativeSpace.transform") : Serve(r, TRUE)

\* a transformations directory in which the sub-directory of TargetWithDir may exist
InitTransform ==
    /\ transformations_dir \in
           {<< >>} \cup {(TargetWithDir :> d) : d \in Directories}
    /\ request = Unset /\ listings = << >> /\ registrator_calls = << >>
    /\ error = "None"
    /\ args = Unset /\ pc = "idle" /\ loop = 0 /\ modality = << >>
    /\ brain_extractor = "None" /\ defacer = "None" /\ atlas_mask = None
    /\ temp_folder = {} /\ files = {} /\ disk = {} /\ calls = << >> /\ stage_log = << >> /\ logger = NoHandlers
    /\ warnings = << >>
    /\ CtorIdle /\ AlgIdle /\ ModIdle

NextTransform ==
    \/ TransformApply
    \/ BackToNativeTransform

SpecTransform == InitTransform /\ [][NextTransform]_vars

\* the files of the target's sub-directory in ascending order of name
Ascending(d) ==
    CHOOSE l \in IterDir(d) : \A i \in 1..(Len(l) - 1) : LexLess(l[i], l[i + 1])

\* the request asked for the inverse direction
InverseRequested ==
    request.via = "BackToNativeSpace.transform" \/ request.inverse

C8_MissingDirectoryAsserts ==
    (request # Unset /\ request.target_modality_name \notin DOMAIN transformations_dir) =>
        /\ error = "AssertionError"
        /\ listings = << >>
        /\ registrator_calls = << >>

\* an inverse call for a modality without sub-directory, other sub-directories existing
C8_Witness ==
    /\ request # Unset /\ request.via = "BackToNativeSpace.transform"
    /\ request.target_modality_name \notin DOMAIN transformations_dir
    /\ DOMAIN transformations_dir # {}
    /\ error = "AssertionError"

(***************************************************************************)
(* NiftyRegRegistrator: affine algebra on matrix text files (niftyreg.py)  *)
(***************************************************************************)
\* bounds: calls of one behaviour, length of a list of transforms
MaxAlgebraOps == 2
MaxChain == 2

\* 4x4 matrices with integer entries, as rows of columns
Idx == 1..4
Mat(r1, r2, r3, r4) == <<r1, r2, r3, r4>>
Identity == Mat(<<1, 0, 0, 0>>, <<0, 1, 0, 0>>, <<0, 0, 1, 0>>, <<0, 0, 0, 1>>)

\* the 4x4 array with the entries of f, written out
Array(f) ==
    Mat(<<f[1][1], f[1][2], f[1][3], f[1][4]>>, <<f[2][1], f[2][2], f[2][3], f[2][4]>>,
        <<f[3][1], f[3][2], f[3][3], f[3][4]>>, <<f[4][1], f[4][2], f[4][3], f[4][4]>>)

\* X @ Y
MatMul(X, Y) ==
    Array([i \in Idx |-> [j \in Idx |->
        X[i][1] * Y[1][j] + X[i][2] * Y[2][j] + X[i][3] * Y[3][j] + X[i][4] * Y[4][j]]])

\* the three indices other than i, ascending
Others(i) == CASE i = 1 -> <<2, 3, 4>> [] i = 2 -> <<1, 3, 4>>
               [] i = 3 -> <<1, 2, 4>> [] OTHER -> <<1, 2, 3>>

\* determinant of the 3x3 sub-matrix of M on rows r and columns c
Det3(M, r, c) ==
      M[r[1]][c[1]] * (M[r[2]][c[2]] * M[r[3]][c[3]] - M[r[2]][c[3]] * M[r[3]][c[2]])
    - M[r[1]][c[2]] * (M[r[2]][c[1]] * M[r[3]][c[3]] - M[r[2]][c[3]] * M[r[3]][c[1]])
    + M[r[1]][c[3]] * (M[r[2]][c[1]] * M[r[3]][c[2]] - M[r[2]][c[2]] * M[r[3]][c[1]])

Cofactor(M, i, j) ==
    (IF (i + j) % 2 = 0 THEN 1 ELSE -1) * Det3(M, Others(i), Others(j))

Det(M) ==
    M[1][1] * Cofactor(M, 1, 1) + M[1][2] * Cofactor(M, 1, 2)
    + M[1][3] * Cofactor(M, 1, 3) + M[1][4] * Cofactor(M, 1, 4)

\* n / d for a divisor of either sign; exact on the matrices of AffinePool, whose
\* determinant is 1 or -1
Divide(n, d) == IF d > 0 THEN n \div d ELSE (-n) \div (-d)

\* mutant: the transpose is taken for the inverse
Inv_Transposed(M) == Array([i \in Idx |-> [j \in Idx |-> M[j][i]]])

\* np.linalg.inv(matrix)
Inv(M) ==
    LET det == Det(M)
    IN  Array([i \in Idx |-> [j \in Idx |-> Divide(Cofactor(M, j, i), det)]])

\* the affine transforms a behaviour starts from: identity, a translation, a rotation by
\* 90 degrees about z, a rotation about x followed by a translation, a shear, a flip
AffinePool ==
    {Identity,
     Mat(<<1, 0, 0, 2>>, <<0, 1, 0, -1>>, <<0, 0, 1, 3>>, <<0, 0, 0, 1>>),
     Mat(<<0, -1, 0, 0>>, <<1, 0, 0, 0>>, <<0, 0, 1, 0>>, <<0, 0, 0, 1>>),
     Mat(<<1, 0, 0, 1>>, <<0, 0, -1, 0>>, <<0, 1, 0, -2>>, <<0, 0, 0, 1>>),
     Mat(<<1, 1, 0, 0>>, <<0, 1, 0, 0>>, <<0, 0, 1, 0>>, <<0, 0, 0, 1>>),
     Mat(<<-1, 0, 0, 0>>, <<0, 1, 0, 0>>, <<0, 0, 1, 0>>, <<0, 0, 0, 1>>)}

\* "%.12f" % x for an integral x: sign, digits before the point, the twelve digits after it
Format12(x) == [sign |-> IF x < 0 THEN "-" ELSE "", whole |-> IF x < 0 THEN -x ELSE x,
                decimals |-> 0]
\* float(text) of such a text: its twelve decimals are all zero
ParseFloat(t) == IF t.sign = "-" THEN -t.whole ELSE t.whole

\* np.savetxt(path, matrix, fmt="%.12f") and np.loadtxt(path): the text of a file
SaveTxt(M) == Array([i \in Idx |-> [j \in Idx |-> Format12(M[i][j])]])
LoadTxt(text) == Array([i \in Idx |-> [j \in Idx |-> ParseFloat(text[i][j])]])

\* a matrix file path is <<stem, suffix>>; Path(p).with_suffix(suffix)
WithSuffix(p, suffix) == <<p[1], suffix>>
MatrixPaths == {<<"T1", ".txt">>, <<"T2", ".txt">>, <<"out", ".txt">>}
Suffixes == {".txt", ".mat"}

\* mutant: the next matrix is multiplied from the right
ComposeStep_FromRight(mat, composed) == MatMul(composed, mat)

\* composed = mat @ composed
ComposeStep(mat, composed) == MatMul(mat, composed)

\* the loop of _compose_affine_transforms over matrices[1:]
RECURSIVE ComposeLoop(_, _)
ComposeLoop(composed, rest) ==
    IF rest = << >> THEN composed
    ELSE ComposeLoop(ComposeStep(rest[1], composed), Tail(rest))

\* _compose_affine_transforms: the text written to output_path
ComposeAffineTransforms(fs, transform_paths) ==
    LET paths == [i \in 1..Len(transform_paths) |-> WithSuffix(transform_paths[i], ".txt")]
        matrices == [i \in 1..Len(paths) |-> LoadTxt(fs[paths[i]])]
    IN  SaveTxt(ComposeLoop(matrices[1], Tail(matrices)))

\* _invert_affine_transform: the text written to output_path
InvertAffineTransform(fs, transform_path) ==
    SaveTxt(Inv(LoadTxt(fs[transform_path])))

\* the lists of transforms a caller may pass: existing files, named with one suffix
TransformLists ==
    UNION {{[i \in 1..n |-> <<stems[i], suffix>>] :
               stems \in [1..n -> {p[1] : p \in DOMAIN matrix_files}], suffix \in Suffixes} :
           n \in 1..MaxChain}

\* how a file came to hold its matrix: the call, the matrices it read, how those came
Given == [op |-> "given"]
Derived(op, paths) ==
    [op |-> op,
     of |-> [i \in 1..Len(paths) |-> LoadTxt(matrix_files[WithSuffix(paths[i], ".txt")])],
     from |-> [i \in 1..Len(paths) |-> derivation[WithSuffix(paths[i], ".txt")]]]

AlgebraFrame ==
    /\ UNCHANGED <<args, warnings, pc, loop, modality, brain_extractor, defacer, atlas_mask,
                   temp_folder, files, disk, calls, stage_log, logger, transformations_dir, error>>
    /\ UNCHANGED <<ctorVars, tfVars, modVars>>

\* a call of _compose_affine_transforms
Compose ==
    /\ ops < MaxAlgebraOps
    /\ \E transform_paths \in TransformLists, output_path \in MatrixPaths :
           /\ matrix_files' = (output_path :> ComposeAffineTransforms(matrix_files, transform_paths))
                                  @@ matrix_files
           /\ derivation' = (output_path :> Derived("compose", transform_paths)) @@ derivation
    /\ ops' = ops + 1
    /\ UNCHANGED <<resampled, applied>>
    /\ AlgebraFrame

\* a call of _invert_affine_transform
Invert ==
    /\ ops < MaxAlgebraOps
    /\ \E transform_path \in DOMAIN matrix_files, output_path \in MatrixPaths :
           /\ matrix_files' = (output_path :> InvertAffineTransform(matrix_files, transform_path))
                                  @@ matrix_files
           /\ derivation' = (output_path :> Derived("invert", <<transform_path>>)) @@ derivation
    /\ ops' = ops + 1
    /\ UNCHANGED <<resampled, applied>>
    /\ AlgebraFrame

\* one application of a transform by a backend: the method called, the matrix paths it
\* was given, and the transform the resampling engine applied
Applied(backend, method, matrix_path, matrix) ==
    [backend |-> backend, method |-> method, matrix_path |-> matrix_path, matrix |-> matrix]

\* NiftyRegRegistrator.transform: the matrix file handed to reg_resample. A list of one
\* path and a single path are used as they are; a longer list is composed into a
\* temporary file that is removed after the call
NiftyRegTransform ==
    /\ ops < MaxAlgebraOps
    /\ \E matrix_path \in TransformLists, is_list \in BOOLEAN :
           /\ is_list \/ Len(matrix_path) = 1
           /\ LET text == IF Len(matrix_path) = 1
                          THEN matrix_files[WithSuffix(matrix_path[1], ".txt")]
                          ELSE ComposeAffineTransforms(matrix_files, matrix_path)
              IN  /\ resampled' = Append(resampled,
                                         [matrix_path |-> matrix_path,
                                          is_list |-> is_list,
                                          of |-> Derived("transform", matrix_path).of,
                                          matrix |-> LoadTxt(text)])
              /\ applied' = Append(applied,
                                   Applied("NiftyRegRegistrator", "transform", matrix_path,
                                           LoadTxt(text)))
    /\ ops' = ops + 1
    /\ UNCHANGED <<matrix_files, derivation>>
    /\ AlgebraFrame

\* two matrix files written by registrations
InitAlgebra ==
    /\ \E A, B \in AffinePool :
           matrix_files = (<<"T1", ".txt">> :> SaveTxt(A)) @@ (<<"T2", ".txt">> :> SaveTxt(B))
    /\ derivation = (<<"T1", ".txt">> :> Given) @@ (<<"T2", ".txt">> :> Given)
    /\ resampled = << >>
    /\ ops = 0
    /\ applied = << >>
    /\ error = "None"
    /\ RunIdle /\ CtorIdle /\ TfIdle /\ ModIdle

NextAlgebra ==
    \/ Compose
    \/ Invert
    \/ NiftyRegTransform

SpecAlgebra == InitAlgebra /\ [][NextAlgebra]_vars

\* T[n] . ... . T[1]: the last matrix of the list leftmost
RECURSIVE LastLeftmost(_)
LastLeftmost(T) ==
    IF Len(T) = 1 THEN T[1]
    ELSE MatMul(T[Len(T)], LastLeftmost(SubSeq(T, 1, Len(T) - 1)))

\* the files written by a compose call
Composed == {p \in DOMAIN derivation : derivation[p].op = "compose"}
\* the files written by an invert call
Inverted == {p \in DOMAIN derivation : derivation[p].op = "invert"}

\* C9: the file a compose call writes for the list [T1, ..., Tn] holds Tn . ... . T1, and
\* so does the matrix a transform call hands to the resampling for a list; the results
\* for [A, B] and for [B, A] differ whenever A and B do not commute
C9_ComposeLastLeftmost ==
    /\ \A p \in Composed :
           LoadTxt(matrix_files[p]) = LastLeftmost(derivation[p].of)
    /\ \A k \in 1..Len(resampled) : resampled[k].matrix = LastLeftmost(resampled[k].of)
    /\ \A p, q \in Composed :
           LET AB == derivation[p].of
               BA == derivation[q].of
           IN  (/\ Len(AB) = 2 /\ BA = <<AB[2], AB[1]>>
                /\ MatMul(AB[1], AB[2]) # MatMul(AB[2], AB[1]))
               => /\ matrix_files[p] # matrix_files[q]
                  /\ LoadTxt(matrix_files[p]) = MatMul(AB[2], AB[1])

\* two files hold the compositions of two non-commuting matrices in both orders
C9_Witness ==
    \E p, q \in Composed :
        LET AB == derivation[p].of
        IN  /\ Len(AB) = 2 /\ derivation[q].of = <<AB[2], AB[1]>>
            /\ MatMul(AB[1], AB[2]) # MatMul(AB[2], AB[1])

NiftyRegInverseMatrix_AsReceived(fs, matrix_path) ==
    LET tmp == <<"tmp", ".txt">>
        composed == (tmp :> ComposeAffineTransforms(fs, matrix_path)) @@ fs
    IN  InvertAffineTransform(composed, tmp)

\* NiftyRegRegistrator.inverse_transform: the text of the temporary file handed to
\* transform: the list is reversed, composed into the file, the file inverted in place
NiftyRegInverseMatrix(fs, matrix_path) ==
    LET tmp == <<"tmp", ".txt">>
        composed == (tmp :> ComposeAffineTransforms(fs, Reversed(matrix_path))) @@ fs
    IN  InvertAffineTransform(composed, tmp)

\* NiftyRegRegistrator.inverse_transform; the temporary file is removed after the call
NiftyRegInverseTransform ==
    /\ ops < MaxAlgebraOps
    /\ \E matrix_path \in TransformLists :
           LET text == NiftyRegInverseMatrix(matrix_files, matrix_path)
           IN  /\ resampled' = Append(resampled,
                                      [matrix_path |-> <<<<"tmp", ".txt">>>>,
                                       is_list |-> FALSE,
                                       of |-> <<LoadTxt(text)>>,
                                       matrix |-> LoadTxt(text)])
               /\ applied' = Append(applied,
                                    Applied("NiftyRegRegistrator", "inverse_transform",
                                            matrix_path, LoadTxt(text)))
    /\ ops' = ops + 1
    /\ UNCHANGED <<matrix_files, derivation>>
    /\ AlgebraFrame

\* ants.apply_transforms(transformlist, whichtoinvert): the last transform of the list is
\* the first one applied, each inverted where its flag is set
RECURSIVE AntsApplyTransforms(_, _)
AntsApplyTransforms(transformlist, whichtoinvert) ==
    LET first == IF whichtoinvert[1] THEN Inv(transformlist[1]) ELSE transformlist[1]
    IN  IF Len(transformlist) = 1 THEN first
        ELSE MatMul(first, AntsApplyTransforms(Tail(transformlist), Tail(whichtoinvert)))

\* the content of an ITK .mat file, held as the entries of its matrix
ReadMat(fs, p) == LoadTxt(fs[p])

\* ANTsRegistrator.transform: the paths get the suffix .mat, the list is reversed, and
\* whichtoinvert is passed through to ants.apply_transforms as given
ANTsTransformMatrix(fs, matrix_path, whichtoinvert) ==
    LET paths == [i \in 1..Len(matrix_path) |-> WithSuffix(matrix_path[i], ".mat")]
        transformlist == Reversed(paths)
    IN  AntsApplyTransforms([i \in 1..Len(transformlist) |-> ReadMat(fs, transformlist[i])],
                            whichtoinvert)

\* ANTsRegistrator.transform called without whichtoinvert
ANTsTransform ==
    /\ ops < MaxAlgebraOps
    /\ \E matrix_path \in TransformLists :
           applied' = Append(applied,
                             Applied("ANTsRegistrator", "transform", matrix_path,
                                     ANTsTransformMatrix(matrix_files, matrix_path,
                                         [i \in 1..Len(matrix_path) |-> FALSE])))
    /\ ops' = ops + 1
    /\ UNCHANGED <<matrix_files, derivation, resampled>>
    /\ AlgebraFrame

\* ANTsRegistrator.inverse_transform: transform with whichtoinvert=[True] * len(matrix_path)
ANTsInverseTransform ==
    /\ ops < MaxAlgebraOps
    /\ \E matrix_path \in TransformLists :
           applied' = Append(applied,
                             Applied("ANTsRegistrator", "inverse_transform", matrix_path,
                                     ANTsTransformMatrix(matrix_files, matrix_path,
                                         [i \in 1..Len(matrix_path) |-> TRUE])))
    /\ ops' = ops + 1
    /\ UNCHANGED <<matrix_files, derivation, resampled>>
    /\ AlgebraFrame

\* the matrices of two registrations, saved as .txt for NiftyReg and as .mat for ANTs
InitBackends ==
    /\ \E A, B \in AffinePool :
           matrix_files = [p \in {"T1", "T2"} \X Suffixes |->
                              SaveTxt(IF p[1] = "T1" THEN A ELSE B)]
    /\ derivation = [p \in {"T1", "T2"} \X Suffixes |-> Given]
    /\ resampled = << >>
    /\ ops = 0
    /\ applied = << >>
    /\ error = "None"
    /\ RunIdle /\ CtorIdle /\ TfIdle /\ ModIdle

NextBackends ==
    \/ NiftyRegTransform
    \/ NiftyRegInverseTransform
    \/ ANTsTransform
    \/ ANTsInverseTransform

SpecBackends == InitBackends /\ [][NextBackends]_vars

\* the matrices of a list of paths, whatever suffix the paths were given with
MatricesOf(matrix_path) ==
    [i \in 1..Len(matrix_path) |-> LoadTxt(matrix_files[WithSuffix(matrix_path[i], ".txt")])]

\* the chain in stage order an application is for: Transform.apply hands the sorted list
\* to transform and the reversed sorted list to inverse_transform
ChainOf(a) ==
    IF a.method = "inverse_transform" THEN Reversed(a.matrix_path) ELSE a.matrix_path

\* C11: for a chain [T1, ..., Tn] in stage order, the transform a backend applies for
\* Transform.apply(inverse=False) is Tn . ... . T1, the transform it applies for
\* Transform.apply(inverse=True) is the inverse of that product, and the forward and the
\* inverse application of one chain by one backend multiply to the identity in both
\* orders, for NiftyReg and for ANTs
C11_InverseUndoesForward ==
    /\ \A k \in 1..Len(applied) :
           LET product == LastLeftmost(MatricesOf(ChainOf(applied[k])))
           IN  IF applied[k].method = "transform"
               THEN applied[k].matrix = product
               ELSE /\ MatMul(applied[k].matrix, product) = Identity
                    /\ MatMul(product, applied[k].matrix) = Identity
    /\ \A j, k \in 1..Len(applied) :
           (/\ applied[j].method = "transform" /\ applied[k].method = "inverse_transform"
            /\ applied[j].backend = applied[k].backend
            /\ MatricesOf(ChainOf(applied[j])) = MatricesOf(ChainOf(applied[k])))
           => /\ MatMul(applied[k].matrix, applied[j].matrix) = Identity
              /\ MatMul(applied[j].matrix, applied[k].matrix) = Identity

\* a chain of two matrices that do not commute was applied forward and then inverse
C11_Witness ==
    /\ Len(applied) = 2
    /\ applied[1].method = "transform" /\ applied[2].method = "inverse_transform"
    /\ applied[1].backend = applied[2].backend
    /\ Len(applied[1].matrix_path) = 2
    /\ MatricesOf(ChainOf(applied[1])) = MatricesOf(ChainOf(applied[2]))
    /\ LET T == MatricesOf(applied[1].matrix_path)
       IN  MatMul(T[1], T[2]) # MatMul(T[2], T[1])

(***************************************************************************)
(* Defacing without a brain-extracted center image                         *)
(***************************************************************************)
\* the exceptions run_defacing raises with a raise statement of its own
ExplicitErrors == {"ValueError"}

\* run() has ended: it returned or an exception left it
Ended == pc \in {"done", "raised"}

\* the defacing stage was reached and did not skip, the center has no BET artifact
DefacingWithoutBet ==
    /\ requires_defacing
    /\ "deface" \in temp_folder
    /\ Steps(Center)[BET] = None

\* a DEFACED artifact or a defaced output exists
DefacedWritten ==
    \/ \E m \in Mods : Steps(m)[DEFACED] # None
    \/ \E f \in disk : f.kind \in {"raw_defaced_output_path", "normalized_defaced_output_path"}

\* C12: when a defaced output is requested and defacing is reached while the center's
\* BET artifact is absent, run() ends with an explicitly raised error and neither a
\* DEFACED artifact nor a defaced output is written, whichever defacer is configured
C12_ExplicitErrorWithoutBet ==
    (Ended /\ DefacingWithoutBet) =>
        /\ pc = "raised"
        /\ error \in ExplicitErrors
        /\ ~DefacedWritten

(***************************************************************************)
(* Defaults for collaborators that were not supplied                       *)
(***************************************************************************)
\* the message of a fallback to the default named d was logged
Logged(log, d) == \E k \in 1..Len(log) : log[k] = d

\* the constructor's part: registrator and N4 corrector are replaced at construction,
\* each with a warning, and a missing collaborator is no reason to refuse construction
C13_AtConstruction ==
    /\ error = "ValueError" => ~NamesDistinct(all_modalities(ctor_args))
    /\ preprocessor # Unset =>
          /\ ctor_args.registrator = "None" =>
                /\ preprocessor.registrator = "ANTsRegistrator"
                /\ Logged(preprocessor.warnings, "ANTsRegistrator")
          /\ ctor_args.n4_bias_corrector = "None" =>
                /\ preprocessor.n4_bias_corrector = "SitkN4BiasCorrector"
                /\ Logged(preprocessor.warnings, "SitkN4BiasCorrector")

\* the part of run(): extractor and defacer are replaced when their stage does its work,
\* each with a warning, and not before; a run with none supplied does not raise
C13_InRun ==
    pc # "idle" =>
        /\ (args.brain_extractor = "None" /\ "brain-extraction" \in temp_folder) =>
              brain_extractor = "HDBetExtractor" /\ Logged(warnings, "HDBetExtractor")
        /\ (args.brain_extractor = "None" /\ "brain-extraction" \notin temp_folder) =>
              brain_extractor = "None" /\ ~Logged(warnings, "HDBetExtractor")
        /\ (args.defacer = "None" /\ "deface" \in temp_folder) =>
              defacer = "QuickshearDefacer" /\ Logged(warnings, "QuickshearDefacer")
        /\ (args.defacer = "None" /\ "deface" \notin temp_folder) =>
              defacer = "None" /\ ~Logged(warnings, "QuickshearDefacer")
        /\ (args.brain_extractor = "None" /\ args.defacer = "None") => pc # "raised"

\* C13: a collaborator that was not supplied never makes construction or run() fail:
\* registrator and N4 corrector are replaced by ANTsRegistrator and SitkN4BiasCorrector
\* at construction, the brain extractor by HDBetExtractor and the defacer by
\* QuickshearDefacer when their stage actually runs and not before, and every
\* replacement is accompanied by a logged warning
C13_DefaultsWithWarning == C13_AtConstruction /\ C13_InRun

(***************************************************************************)
(* The requested outputs of a run, raw and normalized                      *)
(***************************************************************************)
\* every way of requesting at least one of the six outputs
AllOutputChoices == (SUBSET OutputKinds) \ {{}}

\* the state of a constructed preprocessor on which run() has not been called yet
BeforeRun ==
    /\ pc = "constructed"
    /\ loop = 0
    /\ modality = [m \in Mods |-> NewModality(m)]
    /\ brain_extractor = args.brain_extractor
    /\ defacer = args.defacer
    /\ atlas_mask = None
    /\ temp_folder = {}
    /\ files = {}
    /\ disk = {}
    /\ calls = << >>
    /\ stage_log = << >> /\ logger = NoHandlers
    /\ transformations_dir = << >>
    /\ error = "None"
    /\ warnings = << >>
    /\ CtorIdle /\ TfIdle /\ AlgIdle /\ ModIdle

\* the pipeline started with every combination of raw and normalized outputs, the
\* default registrator and no extractor or defacer supplied
InitOutputs ==
    /\ args \in [outputs : [Mods -> AllOutputChoices],
                 atlas_correction : [Mods -> BOOLEAN],
                 n4_bias_correction : [Mods -> BOOLEAN],
                 registrator : {"ANTsRegistrator"},
                 brain_extractor : {"None"},
                 defacer : {"None"},
                 save_dir_transformations : {FALSE}]
    /\ BeforeRun

SpecOutputs == InitOutputs /\ [][Next]_vars

\* the image of a modality that is not skull-stripped, after atlas correction and N4
\* correction (the center's atlas-corrected artifact is a copy of its registered image)
SkullImage(m) ==
    CASE Steps(m)[N4_BIAS_CORRECTED] # None -> Steps(m)[N4_BIAS_CORRECTED]
      [] Steps(m)[N4_BIAS_CORRECTED] = None /\ m \in Moving /\ Steps(m)[ATLAS_CORRECTED] # None ->
             Steps(m)[ATLAS_CORRECTED]
      [] OTHER -> Steps(m)[ATLAS_REGISTERED]

\* what a requested output is to hold
OutputContent(m, kind) ==
    CASE kind \in {"raw_skull_output_path", "normalized_skull_output_path"} -> SkullImage(m)
      [] kind \in {"raw_bet_output_path", "normalized_bet_output_path"} -> Steps(m)[BET]
      [] OTHER -> Steps(m)[DEFACED]

\* C14: after a run() that returned without error every requested output path of every
\* modality is written, skull outputs from the image after atlas and N4 correction, BET
\* outputs from steps[BET], defaced outputs from steps[DEFACED], normalized exactly for
\* the normalized paths, and no path that was not requested is written
C14_RequestedOutputsWritten ==
    pc = "done" =>
        /\ \A m \in Mods : \A kind \in args.outputs[m] :
               /\ OutputContent(m, kind) # None
               /\ {f \in disk : f.mod = m /\ f.kind = kind} =
                      {[mod |-> m, kind |-> kind, src |-> OutputContent(m, kind),
                        normalized |-> kind \in NormalizedOutputs]}
        /\ \A f \in disk : f.kind \in args.outputs[f.mod]

\* a finished run in which the center asked for all six outputs after N4 correction and
\* a moving modality asked for a normalized skull output only
C14_Witness ==
    /\ pc = "done"
    /\ args.outputs[Center] = OutputKinds
    /\ args.n4_bias_correction[Center]
    /\ args.outputs[1] = {"normalized_skull_output_path"}
    /\ Cardinality(disk) = 7

(***************************************************************************)
(* The mask outputs of the center modality                                 *)
(***************************************************************************)
\* CenterModality.save_mask: the file a call would write for a mask output path
SaveMask(mask_path, kind) ==
    [mod |-> Center, kind |-> kind, src |-> mask_path, normalized |-> FALSE]

\* the pipeline started with a CenterModality that was or was not given each of the two
\* mask output paths; nothing in run() reads them and nothing calls save_mask
InitMasks ==
    /\ args \in [outputs : [Mods -> OutputChoices],
                 atlas_correction : [Mods -> BOOLEAN],
                 n4_bias_correction : [Mods -> {FALSE}],
                 registrator : {"ANTsRegistrator"},
                 brain_extractor : {"None"},
                 defacer : {"None"},
                 save_dir_transformations : {FALSE},
                 bet_mask_output_path : BOOLEAN,
                 defacing_mask_output_path : BOOLEAN]
    /\ BeforeRun

SpecMasks == InitMasks /\ [][Next]_vars

\* C15: when run() has returned, the brain mask is saved to the center's
\* bet_mask_output_path if that path was given and brain extraction ran, and the deface
\* mask to its defacing_mask_output_path if that path was given and defacing ran
C15_MasksSaved ==
    pc = "done" =>
        /\ (args.bet_mask_output_path /\ "brain-extraction" \in temp_folder) =>
               SaveMask(Path("brain_mask", Center), "bet_mask_output_path") \in disk
        /\ (args.defacing_mask_output_path /\ "deface" \in temp_folder) =>
               SaveMask(Path("deface_mask", Center), "defacing_mask_output_path") \in disk

(***************************************************************************)
(* A single modality: construction, normalization, saving (modality.py)    *)
(***************************************************************************)
\* bound: highest voxel intensity of an image
MaxIntensity == 2

\* an image is two voxels of different intensity
Images == {<<a, b>> : a, b \in 0..MaxIntensity} \ {<<a, a>> : a \in 0..MaxIntensity}

NormalizerKinds == {"None", "PercentileNormalizer"}

Clip(x, lo, hi) == IF x < lo THEN lo ELSE IF x > hi THEN hi ELSE x

\* PercentileNormalizer.normalize with the default percentiles 0 and 100 and limits 0, 1
PercentileNormalize(image) ==
    LET lower_value == IF image[1] < image[2] THEN image[1] ELSE image[2]
        upper_value == IF image[1] < image[2] THEN image[2] ELSE image[1]
        Scaled(v) == Clip((v - lower_value) \div (upper_value - lower_value), 0, 1)
    IN  <<Scaled(image[1]) * (1 - 0) + 0, Scaled(image[2]) * (1 - 0) + 0>>

ModalityArgs ==
    [cls : {"Modality", "CenterModality"},
     outputs : SUBSET OutputKinds,
     normalizer : NormalizerKinds,
     image : Images]

\* mutant: a normalized output is accepted without a normalizer
ModalityInitError_NormalizerNotChecked(a) ==
    IF a.outputs = {} THEN "ValueError" ELSE "None"

\* Modality.__init__: the exception it raises, if any
ModalityInitError(a) ==
    IF a.outputs = {} THEN "ValueError"
    ELSE IF \E kind \in NormalizedOutputs : kind \in a.outputs /\ a.normalizer = "None"
         THEN "ValueError"
         ELSE "None"

\* Modality.__init__ / CenterModality.__init__
ConstructModality ==
    /\ subject = Unset /\ error = "None"
    /\ error' = ModalityInitError(mod_args)
    /\ subject' = IF error' = "None"
                  THEN NewModality(Center) @@
                       [cls |-> mod_args.cls, outputs |-> mod_args.outputs,
                        normalizer |-> mod_args.normalizer]
                  ELSE subject
    /\ UNCHANGED <<mod_args, contents>>
    /\ UNCHANGED <<args, warnings, pc, loop, modality, brain_extractor, defacer, atlas_mask,
                   temp_folder, files, disk, calls, stage_log, logger, transformations_dir>>
    /\ UNCHANGED <<ctorVars, tfVars, algVars>>

\* mutant: the image is normalized in place before it is written out
SavedContents_InPlace(self, fs, output_path, normalization) ==
    IF normalization
    THEN Put(Put(fs, self.current, PercentileNormalize(fs[self.current])),
             output_path, PercentileNormalize(fs[self.current]))
    ELSE Put(fs, output_path, fs[self.current])

\* Modality.save_current_image: the files after the call
SavedContents(self, fs, output_path, normalization) ==
    IF normalization
    THEN Put(fs, output_path, PercentileNormalize(fs[self.current]))
    ELSE Put(fs, output_path, fs[self.current])

\* save_current_image called the way run() calls it: for an output path of the modality,
\* normalized exactly for a normalized_* path
SaveCurrentImage ==
    /\ subject # Unset /\ error = "None"
    /\ \E kind \in subject.outputs :
         LET normalization == kind \in NormalizedOutputs
         IN  IF normalization /\ subject.normalizer = "None"
             THEN error' = "ValueError" /\ UNCHANGED contents
             ELSE /\ contents' = SavedContents(subject, contents, Path(kind, Center),
                                               normalization)
                  /\ UNCHANGED error
    /\ UNCHANGED <<mod_args, subject>>
    /\ UNCHANGED <<args, warnings, pc, loop, modality, brain_extractor, defacer, atlas_mask,
                   temp_folder, files, disk, calls, stage_log, logger, transformations_dir>>
    /\ UNCHANGED <<ctorVars, tfVars, algVars>>

\* Modality.normalize: the unnormalized image is backed up, then the file current
\* points to is overwritten with the normalized image
NormalizeModality ==
    /\ subject # Unset /\ error = "None"
    /\ \E temporary_directory, store_unnormalized \in BOOLEAN :
         LET image == contents[subject.current]
             stored == IF store_unnormalized
                       THEN Put(contents, Path("store_unnormalized", Center), image)
                       ELSE contents
             backed == IF temporary_directory
                       THEN Put(stored, Path("unnormalized", Center), image)
                       ELSE stored
         IN  contents' = IF subject.normalizer # "None"
                         THEN Put(backed, subject.current, PercentileNormalize(image))
                         ELSE backed
    /\ UNCHANGED <<mod_args, subject, error>>
    /\ UNCHANGED <<args, warnings, pc, loop, modality, brain_extractor, defacer, atlas_mask,
                   temp_folder, files, disk, calls, stage_log, logger, transformations_dir>>
    /\ UNCHANGED <<ctorVars, tfVars, algVars>>

InitModality ==
    /\ mod_args \in ModalityArgs
    /\ subject = Unset
    /\ contents = (Path("input", Center) :> mod_args.image)
    /\ error = "None"
    /\ RunIdle /\ CtorIdle /\ TfIdle /\ AlgIdle

NextModality ==
    \/ ConstructModality
    \/ SaveCurrentImage
    \/ NormalizeModality

SpecModality == InitModality /\ [][NextModality]_vars

\* save_current_image leaves the modality and the file current points to as they were,
\* writes to nothing but an output path of the modality, and a raw output it writes is
\* a copy of the file current points to
C16_SaveIsPure ==
    SaveCurrentImage =>
        /\ subject' = subject
        /\ contents'[subject.current] = contents[subject.current]
        /\ \A p \in DOMAIN contents' :
               (p \notin DOMAIN contents \/ contents[p] # contents'[p]) =>
                   \E kind \in subject.outputs :
                       /\ p = Path(kind, Center)
                       /\ kind \in RawOutputs => contents'[p] = contents[subject.current]

\* the file current points to is overwritten by Modality.normalize and by nothing else
C16_OnlyNormalizeOverwrites ==
    (subject # Unset /\ contents'[subject.current] # contents[subject.current])
        => NormalizeModality

\* every raw output that was written holds the unnormalized image
C16_RawStaysRaw ==
    \A kind \in RawOutputs :
        Path(kind, Center) \in DOMAIN contents =>
            contents[Path(kind, Center)] = mod_args.image

\* the file current points to holds the unnormalized image
C16_CurrentNotOverwritten ==
    subject # Unset => contents[subject.current] = mod_args.image

\* C16 as stated: writing a normalized output never mutates the unnormalized state, a raw
\* output saved after a normalized one still holds unnormalized data, and no
\* normalization operation of a Modality overwrites the file current points to
C16_NormalizationNeverMutates ==
    /\ [](C16_RawStaysRaw /\ C16_CurrentNotOverwritten)
    /\ [][C16_SaveIsPure]_vars

\* C16, amended: save_current_image, with or without normalization, leaves current, steps
\* and transformation_paths unchanged, writes only to the output path and copies the
\* file current points to for a raw output, so a raw output saved after a normalized one
\* holds what current holds; the one operation that overwrites the file current points
\* to is Modality.normalize
C16_SaveNeverMutates == [][C16_SaveIsPure /\ C16_OnlyNormalizeOverwrites]_vars

\* a normalized and a raw output of the same image were written, the raw one unnormalized
C16_Witness ==
    /\ subject # Unset
    /\ Path("normalized_skull_output_path", Center) \in DOMAIN contents
    /\ Path("raw_skull_output_path", Center) \in DOMAIN contents
    /\ contents[Path("raw_skull_output_path", Center)] = mod_args.image
    /\ contents[Path("normalized_skull_output_path", Center)] # mod_args.image
    /\ contents[subject.current] = mod_args.image

\* the call of __init__ has returned or raised
ModalityConstructed == subject # Unset \/ error # "None"

\* C17: constructing a Modality or CenterModality raises ValueError when none of the six
\* output paths is given and when a normalized_* path is given without a normalizer;
\* otherwise it succeeds with current = input_path, steps[INPUT] = input_path, every
\* other stage entry null and no transformation paths; so a constructed modality with a
\* normalized output requested always has a normalizer, and saving never asks for one
C17_ConstructionChecks ==
    ModalityConstructed =>
        LET refused == \/ mod_args.outputs = {}
                       \/ /\ mod_args.outputs \cap NormalizedOutputs # {}
                          /\ mod_args.normalizer = "None"
        IN  /\ refused <=> (error = "ValueError" /\ subject = Unset)
            /\ ~refused <=> (error = "None" /\ subject # Unset)
            /\ subject # Unset =>
                  /\ subject.current = Path("input", Center)
                  /\ subject.steps[INPUT] = Path("input", Center)
                  /\ \A k \in PreprocessorSteps \ {INPUT} : subject.steps[k] = None
                  /\ subject.transformation_paths = << >>
                  /\ subject.outputs = mod_args.outputs
                  /\ subject.outputs \cap NormalizedOutputs # {} => subject.normalizer # "None"

\* a construction refused although a raw output path was given: a normalized path came
\* without a normalizer
C17_Witness ==
    /\ error = "ValueError" /\ subject = Unset
    /\ mod_args.outputs = {"raw_skull_output_path", "normalized_defaced_output_path"}
    /\ mod_args.cls = "CenterModality"

(***************************************************************************)
(* Failing engine calls during run()                                       *)
(***************************************************************************)
\* marks, in the log of engine calls, a call whose engine failed
Failed == <<"failed", -1>>

\* the engine call the step run() is about to execute makes, if any
PendingCall ==
    CASE pc = "coregistration" /\ loop \in Moving ->
             [engine |-> "registrator", op |-> "register", mod |-> loop]
      [] pc = "atlas_registration" /\ loop = 0 ->
             [engine |-> "registrator", op |-> "register", mod |-> Center]
      [] pc = "atlas_registration" /\ loop \in Moving /\ PendingInputs # {} ->
             [engine |-> "registrator", op |-> "transform", mod |-> loop]
      [] pc = "atlas_correction" /\ loop \in Moving /\ PendingInputs # {} ->
             [engine |-> "registrator", op |-> "register", mod |-> loop]
      [] pc = "n4_bias_correction" /\ loop \in Mods /\ PendingInputs # {} ->
             [engine |-> "n4_bias_corrector", op |-> "correct", mod |-> loop]
      [] pc = "brain_extraction" /\ loop = 0 /\ PendingInputs # {} ->
             [engine |-> "brain_extractor", op |-> "extract", mod |-> Center]
      [] pc = "brain_extraction" /\ loop \in Moving /\ PendingInputs # {} ->
             [engine |-> "brain_extractor", op |-> "apply_bet_mask", mod |-> loop]
      [] pc = "defacing" /\ loop = -1 /\ requires_defacing
           /\ DefaceOutcome(modality[Center], DefaultDefacer(defacer)) = "mask" ->
             [engine |-> "defacer", op |-> "deface", mod |-> Center]
      [] pc = "defacing" /\ loop \in Mods /\ PendingInputs # {} ->
             [engine |-> "defacer", op |-> "apply_deface_mask", mod |-> loop]
      [] OTHER -> [engine |-> "None", op |-> "None", mod |-> -1]

\* the working directory a stage creates before it calls an engine
StageDir ==
    CASE pc = "coregistration" -> {"coregistration"}
      [] pc = "atlas_registration" -> {"atlas-space"}
      [] pc = "atlas_correction" -> {"atlas-correction"}
      [] pc = "n4_bias_correction" -> {"n4-bias-correction"}
      [] pc = "brain_extraction" -> {"brain-extraction"}
      [] pc = "defacing" -> {"deface"}
      [] OTHER -> {}

\* the defaults a stage installs before it calls its engine
StageDefaults ==
    /\ brain_extractor' = IF pc = "brain_extraction" /\ loop = 0
                          THEN DefaultBrainExtractor(brain_extractor) ELSE brain_extractor
    /\ defacer' = IF pc = "defacing" /\ loop = -1 THEN DefaultDefacer(defacer) ELSE defacer
    /\ warnings' =
         CASE pc = "brain_extraction" /\ loop = 0 ->
                  WarnDefault(warnings, brain_extractor, "HDBetExtractor")
           [] pc = "defacing" /\ loop = -1 ->
                  WarnDefault(warnings, defacer, "QuickshearDefacer")
           [] OTHER -> warnings

\* NiftyRegRegistrator with a missing input file: register hands the paths to the
\* script, and transform reads the moving image and the matrices itself but not the
\* fixed image, so what these calls do not read themselves makes the script fail
NiftyRegSwallows ==
    /\ PendingCall.engine = "registrator" /\ args.registrator = "NiftyRegRegistrator"
    /\ ~InputsPresent
    /\ \/ PendingCall.op = "register"
       \/ \A p \in PendingInputs \ {AtlasImage} : IsFile(p)

\* an engine that reports failure by raising: the ANTs and eReg registrators, the N4
\* corrector, the brain extractor, the defacer; the exception leaves run()
EngineRaises ==
    /\ PendingCall.engine # "None" /\ InputsPresent
    /\ ~(PendingCall.engine = "registrator" /\ args.registrator = "NiftyRegRegistrator")
    /\ calls' = Append(calls, Call(PendingCall.op, PendingCall.mod, None, Failed))
    /\ temp_folder' = temp_folder \cup StageDir
    /\ StageDefaults
    /\ Raise("EngineError")
    /\ UNCHANGED <<args, modality, atlas_mask, files, disk, transformations_dir>>
    /\ UNCHANGED <<ctorVars, tfVars, algVars, modVars>>

\* NiftyRegRegistrator.register / transform when the script reports failure:
\* runner.run returns (False, error), the flag is dropped and the call returns; the
\* modality records the output path although no file was written
NiftyRegScriptFails ==
    /\ PendingCall.engine = "registrator"
    /\ args.registrator = "NiftyRegRegistrator"
    /\ InputsPresent \/ NiftyRegSwallows
    /\ calls' = Append(calls, Call(PendingCall.op, PendingCall.mod, None, Failed))
    /\ temp_folder' = temp_folder \cup StageDir
    /\ modality' =
         CASE pc = "coregistration" ->
                  [modality EXCEPT ![loop] = Register(@, Path("co", loop), Path("M_co", loop),
                                                      COREGISTERED, files)]
           [] pc = "atlas_registration" /\ loop = 0 ->
                  [modality EXCEPT ![Center] =
                       Register(@, Path("atlas", Center), Path("M_atlas", Center),
                                ATLAS_REGISTERED, files)]
           [] pc = "atlas_registration" /\ loop # 0 ->
                  [modality EXCEPT ![loop] =
                       Transform(@, Path("atlas", loop), Path("M_atlas", Center),
                                 ATLAS_REGISTERED, files)]
           [] OTHER ->
                  [modality EXCEPT ![loop] =
                       Register(@, Path("atlas_corrected", loop),
                                Path("M_atlas_corrected", loop), ATLAS_CORRECTED, files)]
    /\ IF pc = "atlas_registration" /\ loop = NumMoving
       THEN Return("atlas_registration")
       ELSE loop' = loop + 1 /\ UNCHANGED <<pc, stage_log, logger>>
    /\ UNCHANGED <<args, warnings, brain_extractor, defacer, atlas_mask, files, disk,
                   transformations_dir, error>>
    /\ UNCHANGED <<ctorVars, tfVars, algVars, modVars>>

\* mutant: the modality records the output of the call before the missing file is noticed
MissingInputRaises_StateFirst ==
    /\ ~InputsPresent /\ ~NiftyRegSwallows
    /\ temp_folder' = temp_folder \cup StageDir
    /\ Raise("FileNotFoundError")
    /\ modality' = IF loop \in Mods
                   THEN [modality EXCEPT ![loop].current = Path("co", loop)]
                   ELSE modality
    /\ UNCHANGED <<args, warnings, brain_extractor, defacer, atlas_mask, files,
                   disk, calls, transformations_dir>>
    /\ UNCHANGED <<ctorVars, tfVars, algVars, modVars>>

\* a step that reads a file that does not exist: reading it raises (the ANTs
\* registrator checks for the fixed and the moving image before it writes anything)
MissingInputRaises ==
    /\ ~InputsPresent /\ ~NiftyRegSwallows
    /\ temp_folder' = temp_folder \cup StageDir
    /\ Raise("FileNotFoundError")
    /\ UNCHANGED <<args, warnings, modality, brain_extractor, defacer, atlas_mask, files,
                   disk, calls, transformations_dir>>
    /\ UNCHANGED <<ctorVars, tfVars, algVars, modVars>>

\* the pipeline with engines that may fail, for a registrator that raises and for NiftyReg
InitFailure ==
    /\ args \in [outputs : [Mods -> OutputChoices],
                 atlas_correction : [Mods -> BOOLEAN],
                 n4_bias_correction : [Mods -> BOOLEAN],
                 registrator : {"ANTsRegistrator", "NiftyRegRegistrator"},
                 brain_extractor : {"None"},
                 defacer : {"None"},
                 save_dir_transformations : {FALSE}]
    /\ BeforeRun

NextFailure ==
    \/ Next
    \/ EngineRaises
    \/ NiftyRegScriptFails
    \/ MissingInputRaises

SpecFailure == InitFailure /\ [][NextFailure]_vars

\* C18: when an engine call made during run() fails, run() raises at that call: the call
\* is not retried and no later engine call is made, for every registrator backend,
\* NiftyReg with a script that reports failure included
C18_EngineFailureSurfaces ==
    \A k \in 1..Len(calls) :
        calls[k].aux = Failed => (pc = "raised" /\ k = Len(calls))

\* the same for the engines that raise
C18_RaisingEnginesSurface ==
    args.registrator # "NiftyRegRegistrator" => C18_EngineFailureSurfaces

(***************************************************************************)
(* NativeSpacePreprocessor (native_space_preprocessor.py)                  *)
(***************************************************************************)
\* the stage methods in the order NativeSpacePreprocessor.run() calls them
NativeRunOrder ==
    <<"native_coregistration", "native_n4_bias_correction", "native_save_skull",
      "native_brain_extraction", "native_defacing", "native_save_transformations">>

\* run() calls the stage after stage s, or returns after the last one
NativeReturn(s) ==
    LET k == CHOOSE j \in 1..Len(NativeRunOrder) : NativeRunOrder[j] = s
        next == IF k < Len(NativeRunOrder) THEN NativeRunOrder[k + 1] ELSE "done"
    IN  /\ pc' = next
        /\ loop' = 0
        /\ stage_log' = IF next = "done" THEN stage_log ELSE Append(stage_log, next)
        /\ UNCHANGED logger

NativeRun ==
    /\ pc = "native_constructed"
    /\ pc' = NativeRunOrder[1] /\ loop' = 0
    /\ stage_log' = Append(stage_log, NativeRunOrder[1])
    /\ UNCHANGED logger
    /\ UNCHANGED <<args, warnings, modality, brain_extractor, defacer, atlas_mask,
                   temp_folder, files, disk, calls, transformations_dir, error>>
    /\ UNCHANGED <<ctorVars, tfVars, algVars, modVars>>

\* run_coregistration: every moving modality is registered to the center
NativeCoregistration ==
    /\ pc = "native_coregistration"
    /\ LET fs == files \cup {Path("co", m) : m \in Moving} \cup {Path("M_co", m) : m \in Moving}
                       \cup {Path("native", Center)}
       IN  /\ files' = fs
           /\ modality' = [m \in Mods |->
                  IF m = Center THEN CenterCoregistered(modality[m])
                  ELSE Register(modality[m], Path("co", m), Path("M_co", m), COREGISTERED, fs)]
    /\ calls' = calls \o [m \in Moving |->
                             Call("register", m, modality[m].current, modality[Center].current)]
    /\ temp_folder' = temp_folder \cup {"coregistration"}
    /\ NativeReturn("native_coregistration")
    /\ UNCHANGED <<args, warnings, brain_extractor, defacer, atlas_mask, disk,
                   transformations_dir, error>>
    /\ UNCHANGED <<ctorVars, tfVars, algVars, modVars>>

\* run_n4_bias_correction
NativeN4BiasCorrection ==
    /\ pc = "native_n4_bias_correction"
    /\ LET Corrected == {m \in Mods : args.n4_bias_correction[m]}
       IN  /\ files' = files \cup {Path("N4_bias_corrected", m) : m \in Corrected}
           /\ modality' = [m \in Mods |->
                  IF m \in Corrected
                  THEN N4BiasCorrected(modality[m], Path("N4_bias_corrected", m))
                  ELSE modality[m]]
    /\ temp_folder' = temp_folder \cup {"n4-bias-correction"}
    /\ NativeReturn("native_n4_bias_correction")
    /\ UNCHANGED <<args, warnings, brain_extractor, defacer, atlas_mask, disk, calls,
                   transformations_dir, error>>
    /\ UNCHANGED <<ctorVars, tfVars, algVars, modVars>>

\* run(): the images that are not skull-stripped are saved
NativeSaveSkull ==
    /\ pc = "native_save_skull"
    /\ SaveOutputs({"raw_skull_output_path", "normalized_skull_output_path"})
    /\ NativeReturn("native_save_skull")
    /\ UNCHANGED <<args, warnings, modality, brain_extractor, defacer, atlas_mask,
                   temp_folder, files, calls, transformations_dir, error>>
    /\ UNCHANGED <<ctorVars, tfVars, algVars, modVars>>

\* run_brain_extraction: every modality has its own brain extracted and its own mask
\* applied (loop 0), then the BET outputs are saved (loop 1)
NativeBrainExtraction ==
    /\ pc = "native_brain_extraction"
    /\ IF ~BrainExtractionRuns(defacer)
       THEN /\ NativeReturn("native_brain_extraction")
            /\ UNCHANGED <<modality, brain_extractor, warnings, temp_folder, files, calls, disk>>
       ELSE IF loop = 0
       THEN /\ temp_folder' = temp_folder \cup {"brain-extraction"}
            /\ brain_extractor' = DefaultBrainExtractor(brain_extractor)
            /\ warnings' = WarnDefault(warnings, brain_extractor, "HDBetExtractor")
            /\ files' = files \cup {Path("bet", m) : m \in Mods}
                              \cup {Path("brain_mask", m) : m \in Mods}
            /\ calls' = calls \o [k \in 1..(NumMoving + 1) |->
                                     Call("extract", k - 1, modality[k - 1].current, None)]
            /\ modality' = [m \in Mods |->
                   LET extracted == ExtractBrainRegion(modality[m], Path("bet", m), bet(m))
                   IN  IF bet(m) THEN ApplyBetMask(extracted, Path("bet", m)) ELSE extracted]
            /\ loop' = 1
            /\ UNCHANGED <<pc, stage_log, logger, disk>>
       ELSE /\ SaveOutputs({"raw_bet_output_path", "normalized_bet_output_path"})
            /\ NativeReturn("native_brain_extraction")
            /\ UNCHANGED <<modality, brain_extractor, warnings, temp_folder, files, calls>>
    /\ UNCHANGED <<args, defacer, atlas_mask, transformations_dir, error>>
    /\ UNCHANGED <<ctorVars, tfVars, algVars, modVars>>

\* mod.deface(...) in the loop of run_defacing: CenterModality.deface for the center, the
\* deprecated Modality.deface, which raises RuntimeError, for every other modality
NativeDefaceOutcome(m, dfc) ==
    IF m = Center THEN DefaceOutcome(modality[m], dfc) ELSE "RuntimeError"

\* run_defacing: skipped when no defaced output is requested; otherwise deface and
\* apply_deface_mask are called for one modality after the other (loop is the
\* modality), then the defaced outputs are saved
NativeDefacing ==
    /\ pc = "native_defacing"
    /\ IF ~requires_defacing
       THEN /\ NativeReturn("native_defacing")
            /\ UNCHANGED <<modality, defacer, warnings, temp_folder, files, calls, disk,
                           error>>
       ELSE IF loop \in Mods
       THEN /\ temp_folder' = temp_folder \cup {"deface"}
            /\ defacer' = DefaultDefacer(defacer)
            /\ warnings' = WarnDefault(warnings, defacer, "QuickshearDefacer")
            /\ LET outcome == NativeDefaceOutcome(loop, defacer')
                   mask == Path("deface_mask", loop)
                   input_img == DefaceInput(modality[loop], args.atlas_correction[loop])
               IN  CASE outcome \in {"RuntimeError", "ValueError"} ->
                          /\ Raise(outcome)
                          /\ UNCHANGED <<modality, files, calls>>
                     [] outcome = "None" /\ requires_deface(loop) ->
                          /\ Raise("TypeError")
                          /\ UNCHANGED <<modality, files, calls>>
                     [] outcome = "mask" /\ requires_deface(loop) ->
                          /\ calls' = calls \o
                                 <<Call("deface", loop, modality[loop].steps[BET], None),
                                   Call("apply_deface_mask", loop, input_img, mask)>>
                          /\ files' = files \cup {mask, Path("defaced", loop)}
                          /\ modality' = [modality EXCEPT
                                            ![loop] = ApplyDefaceMask(@, Path("defaced", loop))]
                          /\ loop' = loop + 1
                          /\ UNCHANGED <<pc, stage_log, logger, error>>
                     [] OTHER ->
                          /\ calls' = IF outcome = "mask"
                                      THEN Append(calls, Call("deface", loop,
                                                              modality[loop].steps[BET], None))
                                      ELSE calls
                          /\ files' = IF outcome = "mask" THEN files \cup {mask} ELSE files
                          /\ loop' = loop + 1
                          /\ UNCHANGED <<modality, pc, stage_log, logger, error>>
            /\ UNCHANGED disk
       ELSE /\ SaveOutputs({"raw_defaced_output_path", "normalized_defaced_output_path"})
            /\ NativeReturn("native_defacing")
            /\ UNCHANGED <<modality, defacer, warnings, temp_folder, files, calls, error>>
    /\ UNCHANGED <<args, brain_extractor, atlas_mask, transformations_dir>>
    /\ UNCHANGED <<ctorVars, tfVars, algVars, modVars>>

\* run(): the transformation matrices are saved, run() returns
NativeSaveTransformations ==
    /\ pc = "native_save_transformations"
    /\ transformations_dir' =
           IF args.save_dir_transformations
           THEN [m \in Mods |-> SavedTransformations(modality[m])]
           ELSE transformations_dir
    /\ NativeReturn("native_save_transformations")
    /\ UNCHANGED <<args, warnings, modality, brain_extractor, defacer, atlas_mask,
                   temp_folder, files, disk, calls, error>>
    /\ UNCHANGED <<ctorVars, tfVars, algVars, modVars>>

\* a NativeSpacePreprocessor with a CenterModality and moving modalities, constructed
InitNative ==
    /\ args \in [outputs : [Mods -> OutputChoices],
                 atlas_correction : [Mods -> {TRUE}],
                 n4_bias_correction : [Mods -> BOOLEAN],
                 registrator : {"ANTsRegistrator"},
                 brain_extractor : {"None"},
                 defacer : DefacerKinds,
                 save_dir_transformations : BOOLEAN]
    /\ pc = "native_constructed"
    /\ loop = 0
    /\ modality = [m \in Mods |-> NewModality(m)]
    /\ brain_extractor = args.brain_extractor
    /\ defacer = args.defacer
    /\ atlas_mask = None
    /\ temp_folder = {} /\ files = {} /\ disk = {}
    /\ calls = << >> /\ stage_log = << >> /\ logger = NoHandlers /\ transformations_dir = << >>
    /\ error = "None" /\ warnings = << >>
    /\ CtorIdle /\ TfIdle /\ AlgIdle /\ ModIdle

NextNative ==
    \/ NativeRun
    \/ NativeCoregistration
    \/ NativeN4BiasCorrection
    \/ NativeSaveSkull
    \/ NativeBrainExtraction
    \/ NativeDefacing
    \/ NativeSaveTransformations

SpecNative == InitNative /\ [][NextNative]_vars

\* C19: NativeSpacePreprocessor.run() runs defacing whenever a defaced output is
\* requested and completes: with the Quickshear defacer (given or default), the center
\* and a moving modality requesting a defaced output, the run returns without raising
\* and every modality that requested a defaced output has steps[DEFACED] set and its
\* defaced output written
C19_NativeDefacingCompletes ==
    (/\ Ended
     /\ args.defacer \in {"None", "QuickshearDefacer"}
     /\ requires_deface(Center)
     /\ \E m \in Moving : requires_deface(m))
    => /\ pc = "done"
       /\ \A m \in Mods :
              requires_deface(m) =>
                  /\ Steps(m)[DEFACED] # None
                  /\ \E f \in disk : /\ f.mod = m
                                     /\ f.kind = "raw_defaced_output_path"
                                     /\ f.src = Steps(m)[DEFACED]

(***************************************************************************)
(* The image each stage operation reads                                    *)
(***************************************************************************)
\* the calls the step taken appended to the log of engine calls
NewCalls == {calls'[k] : k \in (Len(calls) + 1)..Len(calls')}

\* every call of one of the operations called made by the step taken read the `current`
\* its modality had when the step began
ConsumeCurrent(called) ==
    \A c \in NewCalls : c.op \in called => c.input = modality[c.mod].current

\* N4 correction, brain extraction on the center and brain-mask application read
\* the modality's `current`
C20_EarlierStagesConsumeCurrent ==
    [][ConsumeCurrent({"correct", "extract", "apply_bet_mask"})]_vars

\* a deface mask applied to a modality with n4_bias_correction set was applied to
\* that modality's N4_BIAS_CORRECTED artifact
DefaceMaskOnN4 ==
    \A k \in 1..Len(calls) :
        (calls[k].op = "apply_deface_mask" /\ args.n4_bias_correction[calls[k].mod])
            => calls[k].input = Path("N4_bias_corrected", calls[k].mod)

\* C20: every stage operation on a modality reads that modality's `current` as left
\* by the latest stage completed for it (N4 correction, brain extraction on the
\* center, brain-mask application and deface-mask application); in particular the
\* deface mask of a modality with n4_bias_correction set that requests a defaced
\* output is applied to its N4_BIAS_CORRECTED artifact
C20_StagesConsumeCurrent ==
    /\ [][ConsumeCurrent({"correct", "extract", "apply_bet_mask", "apply_deface_mask"})]_vars
    /\ [](DefaceMaskOnN4)

(***************************************************************************)
(* Claims about the stages of the atlas-centric run                        *)
(***************************************************************************)
\* the calls of operation op logged so far, as positions in the log
CallsOf(op) == {k \in 1..Len(calls) : calls[k].op = op}

\* the brain-extraction stage has done its work and returned
BrainExtractionRan == Entered("defacing") /\ Called("extract", Center)

\* extract was called exactly once, on the center, and the center's BET image is recorded
ExtractedOnceOnCenter ==
    /\ Cardinality(CallsOf("extract")) = 1
    /\ \A k \in CallsOf("extract") : calls[k].mod = Center
    /\ Steps(Center)[BET] = Path("bet", Center)

\* modality m received apply_mask exactly once, after the extraction, with the mask
\* extracted on the center, and has its BET image recorded
MaskedWithCenterMask(m) ==
    /\ Cardinality({k \in CallsOf("apply_bet_mask") : calls[k].mod = m}) = 1
    /\ \A k \in CallsOf("apply_bet_mask") :
           calls[k].mod = m => /\ calls[k].aux = Path("brain_mask", Center)
                               /\ k > CallIndex("extract", Center)
    /\ Steps(m)[BET] = Path("bet", m)

\* C21 as stated: whenever the brain-extraction stage runs, extract is called exactly
\* once, on the center, every moving modality then receives apply_mask with that mask,
\* and every modality has a BET artifact recorded afterwards
C21_EveryModalityMasked ==
    BrainExtractionRan =>
        /\ ExtractedOnceOnCenter
        /\ \A m \in Moving : MaskedWithCenterMask(m)

\* C21 amended: whenever the brain-extraction stage runs, extract is called exactly
\* once, on the center, whose BET artifact is recorded even when it requested no BET
\* output; every moving modality that requested a BET output then receives apply_mask
\* with that mask and has a BET artifact recorded; a moving modality that requested no
\* BET output receives no apply_mask and has no BET artifact
C21_RequestingModalitiesMasked ==
    BrainExtractionRan =>
        /\ ExtractedOnceOnCenter
        /\ \A m \in Moving :
               IF bet(m) THEN MaskedWithCenterMask(m)
               ELSE ~Called("apply_bet_mask", m) /\ Steps(m)[BET] = None

\* the stage has run: the center requested no BET output and has its BET image all the
\* same, and every moving modality requested one and was masked
C21_Witness ==
    /\ BrainExtractionRan
    /\ ~bet(Center) /\ Steps(Center)[BET] # None
    /\ \A m \in Moving : bet(m) /\ Called("apply_bet_mask", m)

\* the defacing stage has done its work and returned
DefacingRan == Entered("save_transformations") /\ requires_defacing

\* the deface mask was computed exactly once, for the center, from the center's BET image
MaskComputedOnce ==
    /\ Cardinality(CallsOf("deface")) = 1
    /\ \A k \in CallsOf("deface") :
           calls[k].mod = Center /\ calls[k].input = Steps(Center)[BET]

\* modality m received Defacer.apply_mask exactly once, after the mask was computed and
\* with that mask; its DEFACED image is recorded and is its current
DefacedWithCenterMask(m) ==
    /\ Cardinality({k \in CallsOf("apply_deface_mask") : calls[k].mod = m}) = 1
    /\ \A k \in CallsOf("apply_deface_mask") :
           calls[k].mod = m => /\ calls[k].aux = Path("deface_mask", Center)
                               /\ k > CallIndex("deface", Center)
    /\ Steps(m)[DEFACED] = Path("defaced", m)
    /\ modality[m].current = Path("defaced", m)

InitDeface ==
    /\ args \in [outputs : [Mods -> OutputChoices],
                 atlas_correction : [Mods -> {TRUE}],
                 n4_bias_correction : [Mods -> {FALSE}],
                 registrator : RegistratorKinds,
                 brain_extractor : {"None"},
                 defacer : {"QuickshearDefacer"},
                 force_atlas_registration : BOOLEAN,
                 save_dir_transformations : {FALSE}]
    /\ BeforeRun

SpecDeface == InitDeface /\ [][Next]_vars

\* positions r < d < i of the log at which the defacing stage registered the center's
\* BET image to the atlas, computed the mask on the registered image and transformed
\* the mask back with the matrix of that registration
RoundTrip(r, d, i) ==
    /\ r < d /\ d < i
    /\ calls[r].op = "register" /\ calls[r].stage = "defacing"
    /\ calls[r].input = Steps(Center)[BET]
    /\ calls[d].op = "deface" /\ calls[d].input = Path("atlas_bet", Center)
    /\ calls[i].op = "inverse_transform"
    /\ calls[i].input = Path("deface_mask_atlas", Center)
    /\ calls[i].aux = Path("M_atlas_bet", Center)

\* C23: when the Quickshear defacer has force_atlas_registration enabled, the defacing
\* stage of run() registers the center's BET image to the defacer's atlas, computes the
\* mask on the atlas-registered BET image and inverse-transforms the mask back with the
\* same matrix, in this order, and the mask applied to the modalities is the
\* inverse-transformed one
C23_ForcedAtlasRoundTrip ==
    (ForceAtlasRegistration /\ CallsOf("deface") # {}) =>
        \E r, d, i \in 1..Len(calls) :
            /\ RoundTrip(r, d, i)
            /\ \A k \in CallsOf("apply_deface_mask") : k > i

(***************************************************************************)
(* Registration calls that raise                                           *)
(***************************************************************************)
\* the pipeline started with input images or an atlas image that may not exist
InitMissing ==
    /\ args \in [outputs : [Mods -> OutputChoices],
                 atlas_correction : [Mods -> BOOLEAN],
                 n4_bias_correction : [Mods -> {FALSE}],
                 registrator : {"ANTsRegistrator", "NiftyRegRegistrator"},
                 brain_extractor : {"None"},
                 defacer : {"None"},
                 missing : SUBSET ({Path("input", m) : m \in Mods} \cup {AtlasImage}),
                 save_dir_transformations : {FALSE}]
    /\ BeforeRun

SpecMissing == InitMissing /\ [][NextFailure]_vars

\* the step about to be taken is a call of Modality.register or Modality.transform
RegistrationPending ==
    /\ pc \in {"coregistration", "atlas_registration", "atlas_correction"}
    /\ \/ PendingCall.engine = "registrator"
       \/ pc = "atlas_registration" /\ loop \in Moving

\* the assertion of Modality.transform is about to fail: transforms are united and the
\* modality has no COREGISTERED matrix
AssertionPending ==
    /\ pc = "atlas_registration" /\ loop \in Moving
    /\ UnitesTransforms(args.registrator, ATLAS_REGISTERED)
    /\ Get(modality[loop].transformation_paths, COREGISTERED) = None

\* the ANTs registrator is about to be called with a fixed or moving image that does
\* not exist
AntsMissingPending ==
    /\ RegistrationPending /\ ~AssertionPending
    /\ args.registrator = "ANTsRegistrator"
    /\ ~InputsPresent

\* the step taken raised out of run() and changed no modality and wrote no file
RaisedUnchanged(e) ==
    /\ pc' = "raised" /\ error' = e
    /\ modality' = modality
    /\ files' = files

AtlasRegistrationRan == Entered("atlas_correction")

\* the matrices that produced an image from the input image it derives from, in the
\* order they were applied: none for an input, the coregistration matrix for a
\* coregistered image
Provenance(image) ==
    IF image[1] = "co" THEN <<Path("M_co", image[2])>> ELSE << >>

\* the transforms call c of registrator.transform applies to the original input of its
\* modality, first one first: those that produced the image it resamples, then those
\* it was handed
LogicalChain(c) == Provenance(c.input) \o c.aux

ReRegistered(m) ==
    /\ NewCalls = {Call("register", m, modality[m].current, modality[Center].current)}
    /\ modality'[m].steps[ATLAS_CORRECTED] = Path("atlas_corrected", m)
    /\ modality'[m].current = Path("atlas_corrected", m)
    /\ Get(modality'[m].transformation_paths, ATLAS_CORRECTED) = Path("M_atlas_corrected", m)

\* a step of the atlas-correction stage: the pass of the loop for a moving modality
\* re-registers it when its flag is set and leaves it alone otherwise; the step for
\* the center calls no engine and records the copy when the center's flag is set; the
\* center's current and transformation_paths stay as they are
AtlasCorrectionStep ==
    /\ \A m \in Moving :
           IF m = loop /\ args.atlas_correction[m]
           THEN ReRegistered(m)
           ELSE modality'[m] = modality[m]
    /\ loop \in Moving /\ ~args.atlas_correction[loop] => NewCalls = {}
    /\ loop \notin Moving => NewCalls = {}
    /\ modality'[Center].current = modality[Center].current
    /\ modality'[Center].transformation_paths = modality[Center].transformation_paths
    /\ modality'[Center].steps[ATLAS_CORRECTED] =
           IF loop \notin Moving /\ args.atlas_correction[Center]
           THEN Path("atlas_corrected", Center)
           ELSE modality[Center].steps[ATLAS_CORRECTED]

\* after the stage exactly the flagged moving modalities have an ATLAS_CORRECTED
\* artifact and matrix, and the center has the artifact when flagged and never a matrix
AtlasCorrectionOutcome ==
    Entered("n4_bias_correction") =>
        /\ \A m \in Moving :
               /\ Steps(m)[ATLAS_CORRECTED] # None <=> args.atlas_correction[m]
               /\ Get(modality[m].transformation_paths, ATLAS_CORRECTED) # None
                      <=> args.atlas_correction[m]
        /\ Steps(Center)[ATLAS_CORRECTED] # None <=> args.atlas_correction[Center]
        /\ Get(modality[Center].transformation_paths, ATLAS_CORRECTED) = None
        /\ \A k \in CallsOf("register") :
               calls[k].stage = "atlas_correction" =>
                   /\ calls[k].mod \in Moving
                   /\ calls[k].aux = Path("atlas", Center)

\* C26: in atlas correction exactly the moving modalities with atlas_correction set are
\* re-registered, each against the center's current (atlas-space) image, and get an
\* artifact and a matrix recorded under ATLAS_CORRECTED; a moving modality without the
\* flag keeps current, steps and transformation_paths; the center is never
\* re-registered, its ATLAS_CORRECTED artifact (when flagged) is a copy of its current
\* image, and its current and transformation_paths are the same before and after
C26_AtlasCorrectionFrame ==
    /\ [][pc = "atlas_correction" => AtlasCorrectionStep]_vars
    /\ [](AtlasCorrectionOutcome)

\* the stage has run with the center and a moving modality flagged: the moving modality
\* was re-registered, the center has its copy and still its atlas-registered image as
\* current
C26_Witness ==
    /\ pc = "n4_bias_correction" /\ loop = 0
    /\ args.atlas_correction[Center]
    /\ Steps(Center)[ATLAS_CORRECTED] = Path("atlas_corrected", Center)
    /\ modality[Center].current = Path("atlas", Center)
    /\ \E m \in Moving : args.atlas_correction[m] /\ modality[m].current = Path("atlas_corrected", m)

(***************************************************************************)
(* The saved transformation matrices                                       *)
(***************************************************************************)
\* the stages for which modality m has a matrix recorded
RecordedStages(m) ==
    {k \in DOMAIN modality[m].transformation_paths : modality[m].transformation_paths[k] # None}

\* the members of a set of stages in ascending order
InStageOrder(S) ==
    CHOOSE l \in [1..Cardinality(S) -> S] : \A i, j \in 1..Cardinality(S) : i < j => l[i] < l[j]

\* the position in the log of the registration that wrote a matrix file
MatrixCall(path) ==
    CHOOSE k \in CallsOf("register") :
        CASE path[1] = "M_co" -> calls[k].stage = "coregistration" /\ calls[k].mod = path[2]
          [] path[1] = "M_atlas" -> calls[k].stage = "atlas_registration"
          [] OTHER -> calls[k].stage = "atlas_correction" /\ calls[k].mod = path[2]

\* C27: a run given save_dir_transformations writes for every modality, center
\* included, a sub-directory named after it with exactly one file per non-null entry
\* of transformation_paths, each name prefixed with the stage value; the names sorted
\* as Transform.apply sorts them give the matrices in the order the stages were applied
\* during the run (COREGISTERED, ATLAS_REGISTERED, ATLAS_CORRECTED), whatever order
\* the directory is listed in
C27_SavedChainInStageOrder ==
    (pc = "done" /\ args.save_dir_transformations) =>
        /\ DOMAIN transformations_dir = Mods
        /\ \A m \in Mods :
               LET paths == modality[m].transformation_paths
                   chain == InStageOrder(RecordedStages(m))
               IN  /\ RecordedStages(m) \subseteq {COREGISTERED, ATLAS_REGISTERED, ATLAS_CORRECTED}
                   /\ Cardinality(transformations_dir[m]) = Len(chain)
                   /\ \A listing \in IterDir(transformations_dir[m]) :
                          /\ Len(Sort(listing)) = Len(chain)
                          /\ \A i \in 1..Len(chain) :
                                 /\ Sort(listing)[i][1] = chain[i]
                                 /\ Sort(listing)[i] = <<chain[i]>> \o PathName(paths[chain[i]])
                   /\ \A i, j \in 1..Len(chain) :
                          i < j => MatrixCall(paths[chain[i]]) < MatrixCall(paths[chain[j]])

\* a finished run that saved the chain of three matrices of an atlas-corrected moving
\* modality and the single matrix of the center
C27_Witness ==
    /\ pc = "done" /\ args.save_dir_transformations
    /\ Cardinality(transformations_dir[Center]) = 1
    /\ \E m \in Moving : Cardinality(transformations_dir[m]) = 3

(***************************************************************************)
(* Whose state a step changes                                              *)
(***************************************************************************)
\* the modality the step about to be taken processes: the one the stage loop is at, and
\* the center in the steps a stage takes for the center outside its loop
Processed == IF loop \in Mods THEN loop ELSE Center

RecordsKept ==
    \A m \in Mods : \A k \in PreprocessorSteps :
        Steps(m)[k] # None => modality'[m].steps[k] = Steps(m)[k]

\* steps[INPUT] is the input path, and a matrix is recorded only for a registration
\* stage and only together with the artifact of that stage
RecordsWellFormed ==
    \A m \in Mods :
        /\ Steps(m)[INPUT] = Path("input", m)
        /\ DOMAIN modality[m].transformation_paths
               \subseteq {COREGISTERED, ATLAS_REGISTERED, ATLAS_CORRECTED}
        /\ \A k \in DOMAIN modality[m].transformation_paths : Steps(m)[k] # None

\* C29: throughout a run, for every modality, steps[INPUT] equals the input path, a
\* steps entry that has become non-null is never reset or replaced later in the run,
\* and a transformation_paths entry exists only for COREGISTERED, ATLAS_REGISTERED and
\* ATLAS_CORRECTED and only for a stage whose steps entry is non-null
C29_StageRecordsOnlyGrow ==
    /\ [][RecordsKept]_vars
    /\ [](RecordsWellFormed)

\* a finished run in which a moving modality has an artifact for every stage and a
\* matrix for each of the three registration stages
C29_Witness ==
    /\ pc = "done"
    /\ \E m \in Moving :
           /\ \A k \in PreprocessorSteps : Steps(m)[k] # None
           /\ DOMAIN modality[m].transformation_paths
                  = {COREGISTERED, ATLAS_REGISTERED, ATLAS_CORRECTED}
    /\ DOMAIN modality[Center].transformation_paths = {ATLAS_REGISTERED}

(***************************************************************************)
(* The log-file handler of run()                                           *)
(***************************************************************************)
\* bound: calls of run() in one process
MaxRuns == 2

\* after a run has returned or raised, the caller constructs the modalities and the
\* preprocessor anew and calls run() again in the same process, where the logger and
\* the handlers registered with it live on
RunAgain ==
    /\ Ended
    /\ logger.next_id <= MaxRuns
    /\ pc' = "constructed"
    /\ loop' = 0
    /\ modality' = [m \in Mods |-> NewModality(m)]
    /\ brain_extractor' = args.brain_extractor
    /\ defacer' = args.defacer
    /\ atlas_mask' = None
    /\ temp_folder' = {} /\ files' = {} /\ disk' = {}
    /\ calls' = << >> /\ stage_log' = << >> /\ transformations_dir' = << >>
    /\ error' = "None" /\ warnings' = << >>
    /\ UNCHANGED <<args, logger>>
    /\ UNCHANGED <<ctorVars, tfVars, algVars, modVars>>

NextLogging ==
    \/ NextFailure
    \/ RunAgain

\* runs of the pipeline, with engines that may fail, one after the other
SpecLogging == InitFailure /\ [][NextLogging]_vars

\* C30: AtlasCentricPreprocessor.run() removes the log-file handler it added at its
\* start on every exit path, after normal completion and when a stage raises: while a
\* run is under way exactly its own handler is registered, and before a run and after
\* it has returned or raised none is, so that repeated runs do not accumulate handlers
C30_HandlerRemovedOnEveryExit ==
    IF pc \in {"constructed", "done", "raised"}
    THEN logger.handlers = {}
    ELSE logger.handlers = {logger.logger_id} /\ logger.logger_id = logger.next_id - 1

\* the second run of the process has raised, and no handler is left
C30_Witness ==
    /\ pc = "raised" /\ error # "None"
    /\ logger.logger_id = MaxRuns
    /\ logger.handlers = {}

====
